---- MODULE Spec2Model ----
(***************************************************************************)
(* State-machine model of the validation framework: ValidationResult,     *)
(* BaseValidationRule helpers, BatchValidationRule.validate (with the     *)
(* NullCheckRule item check) and ValidationOrchestrator.                  *)
(*                                                                         *)
(* Every public operation is one action.  The value an operation returns  *)
(* (or the exception it raises) is kept in `ret`, together with the       *)
(* arguments and the environment outcomes (database answers, behaviour of *)
(* plugged-in rule classes) the call met.  Strings are built as the code  *)
(* builds them (concatenation, str() of numbers).  Timestamps and console *)
(* output are not modelled.                                               *)
(***************************************************************************)
EXTENDS Integers, Sequences, FiniteSets, TLC

VARIABLES
    validation_rules,   \* ValidationOrchestrator.validation_rules (insertion-ordered dict)
    results,            \* ValidationOrchestrator.results
    discovered_tables,  \* ValidationMonitor.discovered_tables
    validation_coverage,\* ValidationMonitor.validation_coverage
    ret                 \* outcome of the last call: value returned or exception raised

\* The fields of the ValidationMonitor; the orchestrator and the rules never touch them.
monitor_vars == <<discovered_tables, validation_coverage>>

vars == <<validation_rules, results, discovered_tables, validation_coverage, ret>>

\* ---------------------------------------------------------------- bounds
\* Largest batch (number of table/column items) handed to validate.
MaxItems == 2
\* Largest registry that is registered by hand or run.
MaxRules == 2
MaxSubs == 2

\* Largest table listing a discovery walks through.
MaxTables == 2
\* Rows of a checked table.
MaxRows == 3

\* ------------------------------------------------------- generic helpers
\* Python's None.
None == "<None>"

\* separator.join(seq) for a list of strings.
RECURSIVE Join(_, _)
Join(seq, sep) ==
    IF Len(seq) = 0 THEN ""
    ELSE IF Len(seq) = 1 THEN seq[1]
    ELSE seq[1] \o sep \o Join(Tail(seq), sep)

\* d[key] = value on a dict (a function on its key set).
DictSet(d, key, value) ==
    [k \in (DOMAIN d) \cup {key} |-> IF k = key THEN value ELSE d[k]]

EmptyDict == [k \in {} |-> None]

\* All lists over S of length at most n.
SeqsUpTo(S, n) == UNION {[1..m -> S] : m \in 0..n}

\* ------------------------------------------------------ ValidationResult
\* detailed_context=None
NoContext == [present |-> FALSE]

\* The dataclass constructor (timestamp left out).
ValidationResult(rule_name, status, table, function_name, module_name, message, error_details, detailed_context) ==
    [rule_name |-> rule_name,
     status |-> status,
     table |-> table,
     function_name |-> function_name,
     module_name |-> module_name,
     message |-> message,
     error_details |-> error_details,
     detailed_context |-> detailed_context]

\* ---------------------------------------------------- BaseValidationRule
\* self is [rule_name, module_name] (module_name = self.__class__.__module__).
create_success_result(self, table, message) ==
    ValidationResult(self.rule_name, "SUCCESS", table, "validate",
                     self.module_name, message, None, NoContext)

\* A failure helper that files its text under message.
create_failure_result_AsMessage(self, table, error_details, status) ==
    ValidationResult(self.rule_name, status, table, "validate",
                     self.module_name, error_details, None, NoContext)

create_failure_result(self, table, error_details, status) ==
    ValidationResult(self.rule_name, status, table, "validate",
                     self.module_name, None, error_details, NoContext)

\* ------------------------------------------------------ ValidationLogger
\* log_failure_detailed: returns None, or raises when check_type is present
\* but is not a string (check_type.upper()).  The value is the exception
\* message, None when the call returns.
log_failure_detailed(result) ==
    IF "check_type" \in DOMAIN result /\ result.check_type = None
    THEN "'NoneType' object has no attribute 'upper'"
    ELSE None

\* ----------------------------------------------------------- item checks
\* What one call of _validate_single_column meets:
\*   rows      the count query answers (total_rows, null_count)
\*   sqlerror  the count query fails inside NullCheckRule
\*   raise     a subclass's check raises
\*   nostatus  a subclass's check returns a mapping without "status"
\*   badlog    a subclass's check returns a FAILED mapping whose check_type is None
ItemEnv(kind, total_rows, null_count, msg) ==
    [kind |-> kind, total_rows |-> total_rows, null_count |-> null_count, msg |-> msg]

ItemEnvs ==
    {ItemEnv("rows", 2, 0, ""), ItemEnv("rows", 2, 1, ""), ItemEnv("rows", 0, 0, ""),
     ItemEnv("sqlerror", 0, 0, "relation does not exist"),
     ItemEnv("raise", 0, 0, "boom"),
     ItemEnv("nostatus", 0, 0, ""),
     ItemEnv("badlog", 0, 0, "")}

\* The result of a call: a returned mapping, or a raised exception message.
Returned(value) == [raised |-> FALSE, msg |-> None, value |-> value]
Raised(msg) == [raised |-> TRUE, msg |-> msg, value |-> None]

\* The check lets a failing query propagate.
NullCheck_validate_single_column_Raises(table, column, e) ==
    IF e.kind = "rows"
    THEN Returned([table |-> table, column |-> column,
                   status |-> IF e.null_count > 0 THEN "FAILED" ELSE "SUCCESS",
                   total_rows |-> e.total_rows, null_count |-> e.null_count,
                   invalid_count |-> e.null_count, check_type |-> "null",
                   details |-> ""])
    ELSE Raised(e.msg)

\* NullCheckRule._validate_single_column
NullCheck_validate_single_column(table, column, e) ==
    IF e.kind = "rows"
    THEN Returned(
           [table |-> table,
            column |-> column,
            status |-> IF e.null_count > 0 THEN "FAILED" ELSE "SUCCESS",
            total_rows |-> e.total_rows,
            null_count |-> e.null_count,
            invalid_count |-> e.null_count,
            check_type |-> "null",
            details |->
              IF e.null_count > 0
              THEN "Found " \o ToString(e.null_count) \o " NULL values in " \o table
                   \o "." \o column \o " (" \o ToString(e.total_rows) \o " rows checked)"
              ELSE "No NULL values found in " \o table \o "." \o column
                   \o " (" \o ToString(e.total_rows) \o " rows checked)"])
    ELSE Returned(
           [table |-> table,
            column |-> column,
            status |-> "FAILED",
            total_rows |-> 0,
            null_count |-> -1,
            invalid_count |-> -1,
            check_type |-> "null",
            details |-> "SQL execution failed: " \o e.msg])

\* BatchValidationRule._validate_single_column (abstract): NullCheckRule's
\* implementation, or another subclass's as the environment describes it.
validate_single_column(table, column, e) ==
    CASE e.kind \in {"rows", "sqlerror"} -> NullCheck_validate_single_column(table, column, e)
      [] e.kind = "raise" -> Raised(e.msg)
      [] e.kind = "nostatus" -> Returned([table |-> table, column |-> column,
                                          details |-> "no status"])
      [] e.kind = "badlog" -> Returned([table |-> table, column |-> column,
                                        status |-> "FAILED", check_type |-> None,
                                        details |-> "bad check_type"])

\* --------------------------------------------------- BatchValidationRule
\* The locals of validate while it loops: all_results, failed_count,
\* failed_tables, summary; `invoked` lists the items whose check was called;
\* `aborted` is set when an exception leaves the loop (abort_msg = str(e)).
LoopStart ==
    [all_results |-> <<>>, failed_count |-> 0, failed_tables |-> <<>>,
     summary |-> EmptyDict, invoked |-> <<>>, aborted |-> FALSE, abort_msg |-> None]

\* f"{table}.{column}"
ItemKey(table, column) == table \o "." \o column

\* A loop without the item's try: the exception leaves the loop.
ItemExcept_Propagates(st, table, column, msg) ==
    [st EXCEPT !.aborted = TRUE, !.abort_msg = msg]

\* An except branch that records the entry but does not count the failure.
ItemExcept_Uncounted(st, table, column, msg) ==
    [st EXCEPT
       !.all_results = Append(@, [table |-> table, column |-> column,
                                  status |-> "FAILED", error |-> msg,
                                  details |-> "Execution failed: " \o msg]),
       !.failed_tables = Append(@, ItemKey(table, column)),
       !.summary = DictSet(@, ItemKey(table, column), "FAILED")]

\* The except branch of the item's try: the item becomes a FAILED entry.
ItemExcept(st, table, column, msg) ==
    [st EXCEPT
       !.all_results = Append(@, [table |-> table, column |-> column,
                                  status |-> "FAILED", error |-> msg,
                                  details |-> "Execution failed: " \o msg]),
       !.failed_count = @ + 1,
       !.failed_tables = Append(@, ItemKey(table, column)),
       !.summary = DictSet(@, ItemKey(table, column), "FAILED")]

\* The statements of the item's try after the check returned single_result.
ItemReturned(st, table, column, single_result) ==
    LET appended == [st EXCEPT !.all_results = Append(@, single_result)]
    IN  IF "status" \notin DOMAIN single_result
        THEN ItemExcept(appended, table, column, "'status'")
        ELSE IF single_result.status = "SUCCESS"
        THEN [appended EXCEPT
                !.summary = DictSet(@, ItemKey(table, column), single_result.status)]
        ELSE IF log_failure_detailed(single_result) # None
        THEN ItemExcept(appended, table, column, log_failure_detailed(single_result))
        ELSE [appended EXCEPT
                !.failed_count = @ + 1,
                !.failed_tables = Append(@, ItemKey(table, column)),
                !.summary = DictSet(@, ItemKey(table, column), single_result.status)]

\* The item's try/except around _validate_single_column.
ItemTry(st, i, table, column, e) ==
    LET called == [st EXCEPT !.invoked = Append(@, i)]
        r == validate_single_column(table, column, e)
    IN  IF r.raised
        THEN ItemExcept(called, table, column, r.msg)
        ELSE ItemReturned(called, table, column, r.value)

\* One turn of the for loop: config["table"], config["column"] are read
\* outside the item's try, so a missing key leaves the loop.
LoopBody(st, i, config, e) ==
    IF "table" \notin DOMAIN config
    THEN [st EXCEPT !.aborted = TRUE, !.abort_msg = "'table'"]
    ELSE IF "column" \notin DOMAIN config
    THEN [st EXCEPT !.aborted = TRUE, !.abort_msg = "'column'"]
    ELSE ItemTry(st, i, config.table, config.column, e)

\* for i, config in enumerate(table_column_configs, 1), from item i on.
RECURSIVE ItemLoop(_, _, _, _)
ItemLoop(configs, envs, i, st) ==
    IF i > Len(configs) \/ st.aborted
    THEN st
    ELSE ItemLoop(configs, envs, i + 1, LoopBody(st, i, configs[i], envs[i]))

\* A summary that tolerates one failure.
HasFailures_MoreThanOne(failed_count) == failed_count > 1

\* if failed_count > 0
HasFailures(failed_count) == failed_count > 0

\* The summary ValidationResult built after the loop.
BatchSummary(self, total_count, st) ==
    LET passed_count == total_count - st.failed_count
        context == [present |-> TRUE,
                    total_validations |-> total_count,
                    passed |-> passed_count,
                    failed |-> st.failed_count,
                    failed_tables |-> st.failed_tables,
                    summary |-> st.summary,
                    detailed_results |-> st.all_results]
    IN  IF HasFailures(st.failed_count)
        THEN ValidationResult(self.rule_name, "CRITICAL_FAILURE", "multiple_tables",
               "validate", self.module_name, None,
               ToString(st.failed_count) \o " of " \o ToString(total_count)
                 \o " validations failed: " \o Join(st.failed_tables, ", "),
               context)
        ELSE ValidationResult(self.rule_name, "SUCCESS", "multiple_tables",
               "validate", self.module_name,
               "All " \o ToString(total_count) \o " validations passed", None,
               context)

\* An outer except that reports like the run loop and drops the message.
BatchFailure_Unknown(self, msg) ==
    create_failure_result(self, "unknown", "Batch validation execution failed",
                          "CRITICAL_FAILURE")

\* The outer except of validate.
BatchFailure(self, msg) ==
    create_failure_result(self, "multiple_tables",
                          "Batch validation execution failed: " \o msg,
                          "CRITICAL_FAILURE")

\* DatabaseManager.connection_context as a caller enters it: conn.ok tells
\* whether the tunnel and engine come up; conn.msg is the error otherwise.
\* use_ssh_tunnel is the manager's mode and fails_at the statement that
\* raises, if one does.
ConnOk ==
    [ok |-> TRUE, msg |-> None, use_ssh_tunnel |-> TRUE, fails_at |-> "nowhere"]
ConnFail ==
    [ok |-> FALSE, msg |-> "Database connection failed", use_ssh_tunnel |-> TRUE,
     fails_at |-> "tunnel.start"]
ConnEngineFail ==
    [ok |-> FALSE, msg |-> "int() argument must be a string, a bytes-like object or a real number, not 'NoneType'",
     use_ssh_tunnel |-> TRUE, fails_at |-> "_create_engine"]
ConnDirect ==
    [ok |-> TRUE, msg |-> None, use_ssh_tunnel |-> FALSE, fails_at |-> "nowhere"]
Conns == {ConnOk, ConnFail, ConnEngineFail, ConnDirect}

\* A scope without the finally clause: the tunnel is stopped only when the
\* body returns.
ScopeLeave_NoFinally(conn, events, exit) ==
    IF conn.use_ssh_tunnel /\ exit = "return" THEN Append(events, "tunnel.stop") ELSE events

\* finally: if tunnel: tunnel.stop().  It runs however the try block is
\* left, by a "return" (at the end of the with block or from inside it) or
\* by an "exception"; the direct branch has nothing to run.
ScopeLeave(conn, events, exit) ==
    IF conn.use_ssh_tunnel THEN Append(events, "tunnel.stop") ELSE events

\* connection_context up to its yield: the calls made on the tunnel and the
\* engine, and whether the body of the with block is entered.  A statement
\* of the try block that raises leaves it through the finally clause.
ScopeEnter(conn) ==
    IF ~conn.use_ssh_tunnel
    THEN [entered |-> conn.fails_at = "nowhere", events |-> <<"_create_engine">>]
    ELSE IF conn.fails_at = "tunnel.start"
    THEN [entered |-> FALSE,
          events |-> ScopeLeave(conn, <<"tunnel.start">>, "exception")]
    ELSE IF conn.fails_at = "_create_engine"
    THEN [entered |-> FALSE,
          events |-> ScopeLeave(conn, <<"tunnel.start", "_create_engine">>, "exception")]
    ELSE [entered |-> TRUE, events |-> <<"tunnel.start", "_create_engine">>]

\* with self.db_manager.connection_context() as engine: <body>, the body
\* left by exit when it is entered at all.
connection_context(conn, exit) ==
    LET enter == ScopeEnter(conn)
    IN  IF enter.entered THEN ScopeLeave(conn, enter.events, exit) ELSE enter.events

\* BatchValidationRule.validate: the result and what the call did.
validate(self, table_column_configs, conn, envs) ==
    LET total_count == Len(table_column_configs)
        st == ItemLoop(table_column_configs, envs, 1, LoopStart)
    IN  IF ~conn.ok
        THEN [result |-> BatchFailure(self, conn.msg), acquired |-> FALSE,
              loop_completed |-> FALSE, invoked |-> <<>>,
              connection |-> connection_context(conn, "exception")]
        ELSE IF st.aborted
        THEN [result |-> BatchFailure(self, st.abort_msg), acquired |-> TRUE,
              loop_completed |-> FALSE, invoked |-> st.invoked,
              connection |-> connection_context(conn, "exception")]
        ELSE [result |-> BatchSummary(self, total_count, st), acquired |-> TRUE,
              loop_completed |-> TRUE, invoked |-> st.invoked,
              connection |-> connection_context(conn, "return")]

\* ------------------------------------------------------------ sanity rules
\* The sanity rules share one shape of validate; what differs per class is
\* listed here: rule_name, module, the result's table, the message head and
\* unit, the topic of error_details, the early return when the data query
\* answers nothing (nodata: none for the eTraGo rules), the table and head of
\* the except handler's result, and the logging call the handler makes.
\* query_caught_by tells where an exception of db_manager.execute_query is
\* caught: in the try of a sub-check, which turns it into a CRITICAL_FAILURE
\* sub-result, or in the try of the data getter, which logs with getter_log
\* and returns [].
SanityRules ==
    {[cls |-> "EtragoElectricitySanityRule",
      rule_name |-> "EtragoElectricitySanityCheck",
      module_name |-> "src.rules.sanity.etrago_electricity_sanity_rule",
      table |-> "grid.egon_etrago_generator,grid.egon_etrago_storage,grid.egon_etrago_load",
      head |-> "Electricity sanity check completed for eGon2035: ",
      unit |-> " validations passed",
      topic |-> "electricity sanity check",
      nodata |-> [returns |-> FALSE, table |-> None, error_details |-> None],
      fail_table |-> "grid.egon_etrago_*",
      fail_head |-> "Sanity check execution failed: ",
      handler_log |-> "self.logger.error",
      query_caught_by |-> "sub-check",
      getter_log |-> "none"],
     [cls |-> "EtragoHeatSanityRule",
      rule_name |-> "EtragoHeatSanityCheck",
      module_name |-> "src.rules.sanity.etrago_heat_sanity_rule",
      table |-> "grid.egon_etrago_load,grid.egon_etrago_link,grid.egon_etrago_generator",
      head |-> "Heat sanity check completed for eGon2035: ",
      unit |-> " validations passed",
      topic |-> "heat sanity check",
      nodata |-> [returns |-> FALSE, table |-> None, error_details |-> None],
      fail_table |-> "grid.egon_etrago_*",
      fail_head |-> "Heat sanity check execution failed: ",
      handler_log |-> "self.logger.error",
      query_caught_by |-> "sub-check",
      getter_log |-> "none"],
     [cls |-> "ResidentialElectricityAnnualSumRule",
      rule_name |-> "ResidentialElectricityAnnualSumCheck",
      module_name |-> "src.rules.sanity.residential_electricity_annual_sum_rule",
      table |-> "demand.egon_demandregio_zensus_electricity,demand.egon_demandregio_hh",
      head |-> "Residential electricity annual sum validation completed: ",
      unit |-> " scenarios passed",
      topic |-> "residential electricity validation",
      nodata |-> [returns |-> FALSE, table |-> None, error_details |-> None],
      fail_table |-> "demand.egon_demandregio_*",
      fail_head |-> "Residential electricity validation failed: ",
      handler_log |-> "self.logger.error",
      query_caught_by |-> "sub-check",
      getter_log |-> "none"],
     [cls |-> "CtsHeatDemandShareRule",
      rule_name |-> "CtsHeatDemandShareCheck",
      module_name |-> "src.rules.sanity.cts_heat_demand_share_rule",
      table |-> "demand.egon_cts_heat_demand_building_share",
      head |-> "CTS heat demand share validation completed: ",
      unit |-> " scenarios passed",
      topic |-> "CTS heat demand share validation",
      nodata |-> [returns |-> TRUE,
                  table |-> "demand.egon_cts_heat_demand_building_share",
                  error_details |-> "No CTS heat demand share data found"],
      fail_table |-> "demand.egon_cts_heat_demand_building_share",
      fail_head |-> "CTS heat demand share validation failed: ",
      handler_log |-> "self.logger.logger.error",
      query_caught_by |-> "getter",
      getter_log |-> "self.logger.logger.error"],
     [cls |-> "ResidentialElectricityHhRefinementRule",
      rule_name |-> "ResidentialElectricityHhRefinementCheck",
      module_name |-> "src.rules.sanity.residential_electricity_hh_refinement_rule",
      table |-> "society.egon_destatis_zensus_household_per_ha_refined",
      head |-> "Household refinement validation completed: ",
      unit |-> " characteristics passed",
      topic |-> "household refinement validation",
      nodata |-> [returns |-> TRUE,
                  table |-> "society.egon_destatis_zensus_household_per_ha_refined",
                  error_details |-> "No refinement data found"],
      fail_table |-> "society.egon_destatis_zensus_household_per_ha_refined",
      fail_head |-> "Household refinement validation failed: ",
      handler_log |-> "self.logger.logger.error",
      query_caught_by |-> "getter",
      getter_log |-> "self.logger.logger.error"],
     [cls |-> "PvRooftopBuildingsSanityRule",
      rule_name |-> "PvRooftopBuildingsSanityCheck",
      module_name |-> "src.rules.sanity.pv_rooftop_buildings_sanity_rule",
      table |-> "supply.egon_power_plants_pv_roof_building",
      head |-> "PV rooftop buildings sanity check completed: ",
      unit |-> " validations passed",
      topic |-> "PV rooftop buildings check",
      nodata |-> [returns |-> TRUE,
                  table |-> "supply.egon_power_plants_pv_roof_building",
                  error_details |-> "No PV rooftop data found"],
      fail_table |-> "supply.egon_power_plants_pv_roof_building",
      fail_head |-> "PV rooftop buildings sanity check execution failed: ",
      handler_log |-> "self.logger.error",
      query_caught_by |-> "getter",
      getter_log |-> "self.logger.error"]}

\* The statuses a sub-check reports.
SubStatuses == {"SUCCESS", "WARNING", "CRITICAL_FAILURE"}

\* len([r for r in all_results if r["status"] == status])
CountStatus(subs, status) == Cardinality({i \in DOMAIN subs : subs[i].status = status})

\* What a sanity validate meets inside its try:
\*   subs    the sub-checks return their results (a list of mappings with status)
\*   nodata  the data query answers nothing
\*   error   an exception is raised
SanityEnv(kind, subs, msg) == [kind |-> kind, subs |-> subs, msg |-> msg]

\* The except handler of a sanity validate: it logs, then builds a failure
\* result; ValidationLogger has no method `error`, so the handlers that call
\* self.logger.error raise AttributeError instead.
SanityExcept(rule, msg) ==
    IF rule.handler_log = "self.logger.error"
    THEN Raised("'ValidationLogger' object has no attribute 'error'")
    ELSE Returned(create_failure_result(rule, rule.fail_table, rule.fail_head \o msg,
                                        "CRITICAL_FAILURE"))

\* A derivation that looks at the warnings before the critical failures.
SanitySummary_WarningsFirst(rule, subs) ==
    LET critical_failures == CountStatus(subs, "CRITICAL_FAILURE")
        warnings == CountStatus(subs, "WARNING")
        passed == CountStatus(subs, "SUCCESS")
        context == [present |-> TRUE,
                    results |-> subs,
                    summary |-> [total_validations |-> Len(subs),
                                 passed |-> passed,
                                 warnings |-> warnings,
                                 critical_failures |-> critical_failures]]
        message == rule.head \o ToString(passed) \o "/" \o ToString(Len(subs)) \o rule.unit
    IN  IF warnings > 0
        THEN ValidationResult(rule.rule_name, "WARNING", rule.table, "validate",
               rule.module_name, message,
               "Found " \o ToString(warnings) \o " warnings in " \o rule.topic,
               context)
        ELSE IF critical_failures > 0
        THEN ValidationResult(rule.rule_name, "CRITICAL_FAILURE", rule.table, "validate",
               rule.module_name, message,
               "Found " \o ToString(critical_failures) \o " critical failures in " \o rule.topic,
               context)
        ELSE ValidationResult(rule.rule_name, "SUCCESS", rule.table, "validate",
               rule.module_name, message, None, context)

\* The status and result a sanity validate derives from its sub-results.
SanitySummary(rule, subs) ==
    LET critical_failures == CountStatus(subs, "CRITICAL_FAILURE")
        warnings == CountStatus(subs, "WARNING")
        passed == CountStatus(subs, "SUCCESS")
        context == [present |-> TRUE,
                    results |-> subs,
                    summary |-> [total_validations |-> Len(subs),
                                 passed |-> passed,
                                 warnings |-> warnings,
                                 critical_failures |-> critical_failures]]
        message == rule.head \o ToString(passed) \o "/" \o ToString(Len(subs)) \o rule.unit
    IN  IF critical_failures > 0
        THEN ValidationResult(rule.rule_name, "CRITICAL_FAILURE", rule.table, "validate",
               rule.module_name, message,
               "Found " \o ToString(critical_failures) \o " critical failures in " \o rule.topic,
               context)
        ELSE IF warnings > 0
        THEN ValidationResult(rule.rule_name, "WARNING", rule.table, "validate",
               rule.module_name, message,
               "Found " \o ToString(warnings) \o " warnings in " \o rule.topic,
               context)
        ELSE ValidationResult(rule.rule_name, "SUCCESS", rule.table, "validate",
               rule.module_name, message, None, context)

\* A sanity validate whose database query raises env.msg.  A sub-check's
\* handler records a CRITICAL_FAILURE sub-result (env.subs holds it); a
\* getter's handler logs and returns [], which validate reports as missing
\* data, unless its logging call is self.logger.error: that raises
\* AttributeError inside the handler, and validate's own handler gets it.
QueryFailure(rule, env) ==
    IF rule.query_caught_by = "sub-check"
    THEN Returned(SanitySummary(rule, env.subs))
    ELSE IF rule.getter_log = "self.logger.error"
    THEN SanityExcept(rule, "'ValidationLogger' object has no attribute 'error'")
    ELSE Returned(create_failure_result(rule, rule.nodata.table,
                                        rule.nodata.error_details, "CRITICAL_FAILURE"))

\* <SanityRule>.validate(config)
sanity_validate(rule, env) ==
    CASE env.kind = "error" -> SanityExcept(rule, env.msg)
      [] env.kind = "nodata" ->
           Returned(create_failure_result(rule, rule.nodata.table,
                                          rule.nodata.error_details, "CRITICAL_FAILURE"))
      [] env.kind = "subs" -> Returned(SanitySummary(rule, env.subs))
      [] env.kind = "queryfail" -> QueryFailure(rule, env)

\* ------------------------------------------------ configuration profiles
\* {"table": t, "column": c}
TC(table, column) == [table |-> table, column |-> column]

\* {"table": t, "column": c, "expected_length": 8760}
TS(table, column) == [table |-> table, column |-> column, expected_length |-> 8760]

\* {"name": n, "rule_class": cls, "config": cfg}
RuleDef(name, rule_class, config) == [name |-> name, rule_class |-> rule_class, config |-> config]

\* The config mappings of the sanity rules (floats by their repr).
EtragoElectricityConfig ==
    [scenario |-> "eGon2035", tolerance |-> "5.0",
     table |-> "grid.egon_etrago_generator", column |-> "p_nom"]

EtragoHeatConfig ==
    [scenario |-> "eGon2035", tolerance |-> "5.0",
     table |-> "grid.egon_etrago_load", column |-> "p_set"]

ResidentialAnnualSumConfig ==
    [scenarios |-> <<"eGon2035", "eGon100RE">>, tolerance |-> "1e-05",
     table |-> "demand.egon_demandregio_zensus_electricity", column |-> "demand"]

HhRefinementConfig ==
    [tolerance |-> "1e-05",
     table |-> "society.egon_destatis_zensus_household_per_ha_refined",
     column |-> "hh_10types"]

CtsElectricityConfig ==
    [tolerance |-> "1e-05", scenarios |-> <<"eGon2035", "eGon100RE">>,
     table |-> "demand.egon_cts_electricity_demand_building_share",
     column |-> "profile_share"]

CtsHeatConfig ==
    [tolerance |-> "1e-05", scenarios |-> <<"eGon2035", "eGon100RE">>,
     table |-> "demand.egon_cts_heat_demand_building_share",
     column |-> "profile_share"]

SixNullChecks ==
    <<TC("demand.egon_demandregio_hh", "demand"),
      TC("demand.egon_demandregio_hh", "nuts3"),
      TC("demand.egon_demandregio_hh", "scenario"),
      TC("supply.egon_power_plants", "el_capacity"),
      TC("supply.egon_power_plants", "carrier"),
      TC("grid.egon_etrago_bus", "carrier")>>

SixSanityRules ==
    <<RuleDef("etrago_electricity_sanity", "EtragoElectricitySanityRule", EtragoElectricityConfig),
      RuleDef("etrago_heat_sanity", "EtragoHeatSanityRule", EtragoHeatConfig),
      RuleDef("residential_electricity_annual_sum", "ResidentialElectricityAnnualSumRule",
              ResidentialAnnualSumConfig),
      RuleDef("residential_electricity_hh_refinement", "ResidentialElectricityHhRefinementRule",
              HhRefinementConfig),
      RuleDef("cts_electricity_demand_share", "CtsElectricityDemandShareRule", CtsElectricityConfig),
      RuleDef("cts_heat_demand_share", "CtsHeatDemandShareRule", CtsHeatConfig)>>

\* VALIDATION_CONFIGURATIONS, in the order of its keys; each profile's rules
\* in list order.
VALIDATION_CONFIGURATIONS ==
    <<[name |-> "comprehensive",
       rules |->
         <<RuleDef("critical_null_checks", "NullCheckRule", SixNullChecks),
           RuleDef("critical_nan_checks", "NanCheckRule",
             <<TC("demand.egon_demandregio_hh", "demand"),
               TC("supply.egon_power_plants", "el_capacity"),
               TC("grid.egon_etrago_load_timeseries", "p_set")>>),
           RuleDef("time_series_completeness", "TimeSeriesValidationRule",
             <<TS("demand.egon_demandregio_sites_ind_electricity_dsm_timeseries", "p_mset"),
               TS("demand.egon_demandregio_timeseries_cts_ind", "load_curve"),
               TS("demand.egon_etrago_electricity_cts_dsm_timeseries", "p_set"),
               TS("demand.egon_etrago_timeseries_individual_heating", "dist_aggregated_mw"),
               TS("demand.egon_heat_timeseries_selected_profiles", "selected_idp_profiles"),
               TS("demand.egon_osm_ind_load_curves_individual_dsm_timeseries", "p_set"),
               TS("demand.egon_sites_ind_load_curves_individual_dsm_timeseries", "p_set"),
               TS("demand.egon_timeseries_district_heating", "dist_aggregated_mw"),
               TS("grid.egon_etrago_bus_timeseries", "v_mag_pu_set"),
               TS("grid.egon_etrago_generator_timeseries", "p_max_pu"),
               TS("grid.egon_etrago_line_timeseries", "s_max_pu"),
               TS("grid.egon_etrago_link_timeseries", "p_min_pu"),
               TS("grid.egon_etrago_load_timeseries", "p_set"),
               TS("grid.egon_etrago_storage_timeseries", "inflow"),
               TS("grid.egon_etrago_store_timeseries", "e_min_pu"),
               TS("grid.egon_etrago_transformer_timeseries", "s_max_pu")>>)>>
         \o SixSanityRules],
      [name |-> "critical_only",
       rules |->
         <<RuleDef("essential_null_checks", "NullCheckRule",
             <<TC("demand.egon_demandregio_hh", "demand"),
               TC("supply.egon_power_plants", "el_capacity")>>),
           RuleDef("core_time_series", "TimeSeriesValidationRule",
             <<TS("grid.egon_etrago_load_timeseries", "p_set")>>)>>],
      [name |-> "time_series_only",
       rules |->
         <<RuleDef("all_time_series", "TimeSeriesValidationRule",
             <<TS("grid.egon_etrago_load_timeseries", "p_set"),
               TS("grid.egon_etrago_generator_timeseries", "p_max_pu"),
               TS("grid.egon_etrago_link_timeseries", "p_min_pu"),
               TS("grid.egon_etrago_line_timeseries", "s_max_pu")>>)>>],
      [name |-> "null_checks_only",
       rules |-> <<RuleDef("comprehensive_null_checks", "NullCheckRule", SixNullChecks)>>],
      [name |-> "quick_check",
       rules |->
         <<RuleDef("basic_null_check", "NanCheckRule",
             <<TC("demand.egon_demandregio_hh", "demand")>>)>>],
      [name |-> "sanity_checks", rules |-> SixSanityRules]>>

\* list(VALIDATION_CONFIGURATIONS.keys())
ConfigurationKeys ==
    [i \in 1..Len(VALIDATION_CONFIGURATIONS) |-> VALIDATION_CONFIGURATIONS[i].name]

\* config_name in VALIDATION_CONFIGURATIONS
IsConfiguration(config_name) ==
    \E i \in DOMAIN VALIDATION_CONFIGURATIONS : VALIDATION_CONFIGURATIONS[i].name = config_name

\* VALIDATION_CONFIGURATIONS[config_name]["rules"]
ConfigurationRules(config_name) ==
    VALIDATION_CONFIGURATIONS[
      CHOOSE i \in DOMAIN VALIDATION_CONFIGURATIONS :
        VALIDATION_CONFIGURATIONS[i].name = config_name].rules

\* str(list of str): ['a', 'b']
ListRepr(names) ==
    "[" \o Join([i \in DOMAIN names |-> "'" \o names[i] \o "'"], ", ") \o "]"

\* ------------------------------------------------- ValidationOrchestrator
\* self.validation_rules is a dict in insertion order: a sequence of
\* [name, rule_class, config] with distinct names.
RuleNames(rules) == [i \in DOMAIN rules |-> rules[i].name]

\* A registry that keeps every registration as a new entry.
register_rule_Appends(rules, rule_name, rule_class, rule_config) ==
    Append(rules, RuleDef(rule_name, rule_class, rule_config))

\* register_rule: self.validation_rules[rule_name] = {rule_class, config}
register_rule(rules, rule_name, rule_class, rule_config) ==
    IF \E i \in DOMAIN rules : rules[i].name = rule_name
    THEN [i \in DOMAIN rules |->
            IF rules[i].name = rule_name
            THEN RuleDef(rule_name, rule_class, rule_config)
            ELSE rules[i]]
    ELSE Append(rules, RuleDef(rule_name, rule_class, rule_config))

\* for rule_def in config["rules"]: self.register_rule(...), from rule_def i on.
RECURSIVE RegisterAll(_, _, _)
RegisterAll(rules, rule_defs, i) ==
    IF i > Len(rule_defs)
    THEN rules
    ELSE RegisterAll(register_rule(rules, rule_defs[i].name, rule_defs[i].rule_class,
                                   rule_defs[i].config),
                     rule_defs, i + 1)

\* A loader that registers on top of what is registered.
LoadRules_Keeps(rules, config_name) ==
    RegisterAll(rules, ConfigurationRules(config_name), 1)

\* The body of load_configuration once the name is known: clear, then register.
LoadRules(rules, config_name) ==
    RegisterAll(<<>>, ConfigurationRules(config_name), 1)

\* A loader that clears the registrations before it looks the name up.
load_configuration_ClearsFirst(rules, config_name) ==
    IF ~IsConfiguration(config_name)
    THEN [raised |-> TRUE,
          error |-> "Configuration '" \o config_name \o "' not found. Available: "
                      \o ListRepr(ConfigurationKeys),
          validation_rules |-> <<>>]
    ELSE [raised |-> FALSE, error |-> None,
          validation_rules |-> LoadRules(rules, config_name)]

\* load_configuration: the ValueError, or the new registrations.
load_configuration(rules, config_name) ==
    IF ~IsConfiguration(config_name)
    THEN [raised |-> TRUE,
          error |-> "Configuration '" \o config_name \o "' not found. Available: "
                      \o ListRepr(ConfigurationKeys),
          validation_rules |-> rules]
    ELSE [raised |-> FALSE, error |-> None,
          validation_rules |-> LoadRules(rules, config_name)]

\* rule_instance.rule_name of each rule class.
RuleNameOf(rule_class) ==
    CASE rule_class = "NullCheckRule" -> "null_check"
      [] rule_class = "NanCheckRule" -> "nan_check"
      [] rule_class = "TimeSeriesValidationRule" -> "time_series_completeness"
      [] rule_class = "EtragoElectricitySanityRule" -> "EtragoElectricitySanityCheck"
      [] rule_class = "EtragoHeatSanityRule" -> "EtragoHeatSanityCheck"
      [] rule_class = "ResidentialElectricityAnnualSumRule" -> "ResidentialElectricityAnnualSumCheck"
      [] rule_class = "ResidentialElectricityHhRefinementRule"
           -> "ResidentialElectricityHhRefinementCheck"
      [] rule_class = "CtsHeatDemandShareRule" -> "CtsHeatDemandShareCheck"
      [] OTHER -> "CtsElectricityDemandShareCheck"

\* rule_class.__module__
ModuleOf(rule_class) ==
    CASE rule_class = "NullCheckRule" -> "src.rules.formal.null_check_rule"
      [] rule_class = "NanCheckRule" -> "src.rules.formal.nan_check_rule"
      [] rule_class = "TimeSeriesValidationRule" -> "src.rules.formal.time_series_rule"
      [] rule_class = "EtragoElectricitySanityRule"
           -> "src.rules.sanity.etrago_electricity_sanity_rule"
      [] rule_class = "EtragoHeatSanityRule" -> "src.rules.sanity.etrago_heat_sanity_rule"
      [] rule_class = "ResidentialElectricityAnnualSumRule"
           -> "src.rules.sanity.residential_electricity_annual_sum_rule"
      [] rule_class = "ResidentialElectricityHhRefinementRule"
           -> "src.rules.sanity.residential_electricity_hh_refinement_rule"
      [] rule_class = "CtsHeatDemandShareRule" -> "src.rules.sanity.cts_heat_demand_share_rule"
      [] OTHER -> "src.rules.sanity.cts_electricity_demand_share_rule"

\* What running one registered rule meets:
\*   ctor_raise      rule_class(self.db_manager) raises an Exception
\*   validate_raise  validate raises an Exception
\*   result          validate returns a ValidationResult of the given status
\*   none            validate returns None
\*   escape          the rule raises a BaseException that is not an Exception
\*                   (KeyboardInterrupt, SystemExit)
RuleOutcome(kind, status, msg) == [kind |-> kind, status |-> status, msg |-> msg]

RuleOutcomes ==
    {RuleOutcome("ctor_raise", None, "cannot construct rule"),
     RuleOutcome("validate_raise", None, "validate exploded"),
     RuleOutcome("result", "SUCCESS", None),
     RuleOutcome("result", "WARNING", None),
     RuleOutcome("result", "CRITICAL_FAILURE", None),
     RuleOutcome("none", None, None),
     RuleOutcome("escape", None, "KeyboardInterrupt")}

\* The Python value None where a ValidationResult or a report is expected.
PyNone == [py_none |-> TRUE]

\* The ValidationResult a rule of this class returns with the given status.
RuleResult(rule_class, status) ==
    LET self == [rule_name |-> RuleNameOf(rule_class), module_name |-> ModuleOf(rule_class)]
    IN  IF status = "SUCCESS"
        THEN create_success_result(self, "checked_table", "Validation passed")
        ELSE create_failure_result(self, "checked_table", "Validation failed", status)

\* The locals of run_all_validations while it loops, with self.results;
\* `executed` lists the rules whose turn of the loop began, in time order;
\* `escaped` is set when an exception leaves the loop.
RunStart ==
    [results |-> <<>>, passed_rules |-> <<>>, failed_rules |-> <<>>,
     executed |-> <<>>, escaped |-> FALSE, escape_msg |-> None]

\* A run loop without the rule's try: the exception leaves the loop.
RuleExcept_Propagates(acc, rule_name, msg) ==
    [acc EXCEPT !.escaped = TRUE, !.escape_msg = msg]

\* except Exception as e: the synthetic result of a rule that could not run.
RuleExcept(acc, rule_name, msg) ==
    [acc EXCEPT
       !.results = Append(@,
          [rule_name |-> rule_name,
           validation_type |-> "unknown",
           result |-> ValidationResult(rule_name, "CRITICAL_FAILURE", "unknown",
                        "run_all_validations", "src.core.validation_orchestrator",
                        None, "Rule execution failed: " \o msg, NoContext),
           execution_error |-> msg]),
       !.failed_rules = Append(@, rule_name)]

\* A run that lets warnings pass.
RulePassed_Lenient(rule_result) == rule_result.status \in {"SUCCESS", "WARNING"}

\* if rule_result.status == "SUCCESS"
RulePassed(rule_result) == rule_result.status = "SUCCESS"

\* The statements of the rule's try after validate returned rule_result.
RuleReturned(acc, entry, rule_result) ==
    LET stored == [acc EXCEPT
                     !.results = Append(@,
                        [rule_name |-> entry.name,
                         validation_type |-> RuleNameOf(entry.rule_class),
                         result |-> rule_result])]
    IN  IF "status" \notin DOMAIN rule_result
        THEN RuleExcept(stored, entry.name, "'NoneType' object has no attribute 'status'")
        ELSE IF RulePassed(rule_result)
        THEN [stored EXCEPT !.passed_rules = Append(@, entry.name)]
        ELSE [stored EXCEPT !.failed_rules = Append(@, entry.name)]

\* One turn of the for loop of run_all_validations.
RunRule(acc, entry, out) ==
    LET begun == [acc EXCEPT !.executed = Append(@, entry.name)]
    IN  CASE out.kind = "escape" -> [begun EXCEPT !.escaped = TRUE, !.escape_msg = out.msg]
          [] out.kind \in {"ctor_raise", "validate_raise"} ->
               RuleExcept(begun, entry.name, out.msg)
          [] out.kind = "none" -> RuleReturned(begun, entry, PyNone)
          [] out.kind = "result" ->
               RuleReturned(begun, entry, RuleResult(entry.rule_class, out.status))

\* A loop that takes the registered rules last to first.
RECURSIVE RunLoop_Reversed(_, _, _, _)
RunLoop_Reversed(rules, outs, i, acc) ==
    IF i > Len(rules) \/ acc.escaped
    THEN acc
    ELSE RunLoop_Reversed(rules, outs, i + 1,
                          RunRule(acc, rules[Len(rules) + 1 - i], outs[Len(rules) + 1 - i]))

\* for i, (rule_name, rule_info) in enumerate(self.validation_rules.items(), 1)
RECURSIVE RunLoop(_, _, _, _)
RunLoop(rules, outs, i, acc) ==
    IF i > Len(rules) \/ acc.escaped
    THEN acc
    ELSE RunLoop(rules, outs, i + 1, RunRule(acc, rules[i], outs[i]))

\* "SUCCESS" if len(failed_rules) == 0 else "CRITICAL_FAILURE"
OverallStatus(failed_rules) ==
    IF Len(failed_rules) = 0 THEN "SUCCESS" ELSE "CRITICAL_FAILURE"

\* run_all_validations: the report (or the exception that left the loop)
\* and self.results as the call leaves it.
run_all_validations(rules, outs) ==
    LET acc == RunLoop(rules, outs, 1, RunStart)
    IN  IF acc.escaped
        THEN [raised |-> TRUE, error |-> acc.escape_msg, report |-> PyNone,
              results |-> acc.results, executed |-> acc.executed]
        ELSE [raised |-> FALSE, error |-> None,
              report |-> [overall_status |-> OverallStatus(acc.failed_rules),
                          total_rules |-> Len(rules),
                          passed_rules |-> Len(acc.passed_rules),
                          failed_rules |-> Len(acc.failed_rules),
                          passed_rule_names |-> acc.passed_rules,
                          failed_rule_names |-> acc.failed_rules,
                          detailed_results |-> acc.results],
              results |-> acc.results, executed |-> acc.executed]

\* A filter that walks rule_names: one entry per naming, in the order of the
\* names.
FilterRules_ByNames(rules, rule_names) ==
    LET Registered(name) == \E i \in DOMAIN rules : rules[i].name = name
        named == SelectSeq(rule_names, Registered)
    IN  [k \in 1..Len(named) |->
           rules[CHOOSE i \in DOMAIN rules : rules[i].name = named[k]]]

\* {name: rule_info for name, rule_info in original_rules.items() if name in rule_names}
FilterRules(rules, rule_names) ==
    LET Named(entry) == \E j \in DOMAIN rule_names : rule_names[j] = entry.name
    IN  SelectSeq(rules, Named)

\* run_specific_validations: filter, run, restore; the restore is a plain
\* statement after the run, so an exception out of the run skips it.
run_specific_validations(rules, rule_names, outs) ==
    LET filtered == FilterRules(rules, rule_names)
        run == run_all_validations(filtered, outs)
    IN  [raised |-> run.raised, error |-> run.error, report |-> run.report,
         results |-> run.results, executed |-> run.executed,
         validation_rules |-> IF run.raised THEN filtered ELSE rules]

\* ------------------------------------------------------ validation monitor
\* TableInfo(schema, table, column_count, columns, estimated_row_count)
TableInfo(schema, table, column_count, columns, estimated_row_count) ==
    [schema |-> schema, table |-> table, column_count |-> column_count,
     columns |-> columns, estimated_row_count |-> estimated_row_count]

\* ValidationCoverage(table, column, validation_types, configurations); the
\* two sorted lists of a set are given by the set.
ValidationCoverage(table, column, validation_types, configurations) ==
    [table |-> table, column |-> column, validation_types |-> validation_types,
     configurations |-> configurations]

\* A row of the table listing: schema_name, table_name, full_table_name.
TableRow(schema, table) ==
    [schema_name |-> schema, table_name |-> table,
     full_table_name |-> schema \o "." \o table]

\* What pg_tables can hold, ORDER BY schemaname, tablename: a table the
\* null checks cover, one only a sanity rule refers to, one no rule names.
PgTables ==
    <<TableRow("demand", "egon_demandregio_hh"),
      TableRow("grid", "egon_etrago_generator"),
      TableRow("public", "spatial_ref_sys")>>

\* The rows of seq at the positions in S, in the order of seq.
RECURSIVE PickRows(_, _, _)
PickRows(seq, S, i) ==
    IF i > Len(seq) THEN <<>>
    ELSE (IF i \in S THEN <<seq[i]>> ELSE <<>>) \o PickRows(seq, S, i + 1)

\* pd.read_sql(query, engine): the rows of the answer, or the error raised.
QueryReturned(rows) == [raised |-> FALSE, msg |-> None, value |-> rows]
QueryRaised(msg) == [raised |-> TRUE, msg |-> msg, value |-> <<>>]

\* What the two queries of one table answer: the column names or an error,
\* the estimate rows (one, or none) or an error.
TableEnvs ==
    {[columns |-> QueryReturned(<<"id", "geom">>), row_count |-> QueryReturned(<<1000>>)],
     [columns |-> QueryReturned(<<>>), row_count |-> QueryReturned(<<0>>)],
     [columns |-> QueryReturned(<<"id", "geom">>), row_count |-> QueryReturned(<<>>)],
     [columns |-> QueryRaised("permission denied for table"),
      row_count |-> QueryReturned(<<1000>>)],
     [columns |-> QueryReturned(<<"id", "geom">>),
      row_count |-> QueryRaised("canceling statement")]}

\* discovered_tables = []; the queries issued and the warnings logged so far.
DiscoveryStart == [discovered_tables |-> <<>>, queries |-> 1, warnings |-> <<>>]

\* A handler that keeps the failed table, with no columns.
TableExcept_Includes(acc, row, queries, msg) ==
    [acc EXCEPT !.queries = @ + queries,
                !.discovered_tables =
                   Append(@, TableInfo(row.schema_name, row.full_table_name, 0, <<>>, 0))]

\* except Exception as e: log a warning and continue with the next table.
TableExcept(acc, row, queries, msg) ==
    [acc EXCEPT !.queries = @ + queries,
                !.warnings = Append(@, "Failed to analyze table " \o row.full_table_name
                                       \o ": " \o msg)]

\* The try body of one table: the column query, the row-count query, the
\* TableInfo appended.
TableTry(acc, row, e) ==
    IF e.columns.raised
    THEN TableExcept(acc, row, 1, e.columns.msg)
    ELSE IF e.row_count.raised
    THEN TableExcept(acc, row, 2, e.row_count.msg)
    ELSE LET columns == e.columns.value
             estimated_rows == IF Len(e.row_count.value) > 0 THEN e.row_count.value[1] ELSE 0
         IN  [acc EXCEPT !.queries = @ + 2,
                         !.discovered_tables =
                            Append(@, TableInfo(row.schema_name, row.full_table_name,
                                                Len(columns), columns, estimated_rows))]

\* for idx, row in tables_df.iterrows()
RECURSIVE TableLoop(_, _, _, _)
TableLoop(rows, envs, i, acc) ==
    IF i > Len(rows) THEN acc
    ELSE TableLoop(rows, envs, i + 1, TableTry(acc, rows[i], envs[i]))

\* sum(t.column_count for t in tables)
RECURSIVE SumColumnCount(_)
SumColumnCount(tables) ==
    IF tables = <<>> THEN 0
    ELSE Head(tables).column_count + SumColumnCount(Tail(tables))

\* The summary of a discovery (timestamp left out; schemas is the sorted
\* list of a set, given by the set).
DiscoverySummary(tables) ==
    LET schemas == {tables[i].schema : i \in DOMAIN tables}
    IN  [total_schemas |-> Cardinality(schemas),
         total_tables |-> Len(tables),
         total_columns |-> SumColumnCount(tables),
         schemas |-> schemas,
         tables |-> tables]

\* A discovery that forgets the known tables as soon as it starts.
discover_database_structure_Clears(self, conn, listing, envs) ==
    IF ~conn.ok \/ listing.raised
    THEN [raised |-> TRUE, error |-> IF ~conn.ok THEN conn.msg ELSE listing.msg,
          summary |-> PyNone, discovered_tables |-> <<>>,
          queries |-> IF ~conn.ok THEN 0 ELSE 1, warnings |-> <<>>,
          critical |-> <<>>, connection |-> connection_context(conn, "exception")]
    ELSE LET acc == TableLoop(listing.value, envs, 1, DiscoveryStart)
         IN  [raised |-> FALSE, error |-> None,
              summary |-> DiscoverySummary(acc.discovered_tables),
              discovered_tables |-> acc.discovered_tables, queries |-> acc.queries,
              warnings |-> acc.warnings, critical |-> <<>>,
              connection |-> connection_context(conn, "return")]

\* ValidationMonitor.discover_database_structure: conn is the connection
\* context, listing the answer to the table listing, envs the answers to
\* the queries of each listed table.  A failure of the connection or of the
\* listing is logged as critical and raised again.
discover_database_structure(self, conn, listing, envs) ==
    IF ~conn.ok
    THEN [raised |-> TRUE, error |-> conn.msg, summary |-> PyNone,
          discovered_tables |-> self.discovered_tables, queries |-> 0,
          warnings |-> <<>>,
          critical |-> <<"Database structure discovery failed: " \o conn.msg>>,
          connection |-> connection_context(conn, "exception")]
    ELSE IF listing.raised
    THEN [raised |-> TRUE, error |-> listing.msg, summary |-> PyNone,
          discovered_tables |-> self.discovered_tables, queries |-> 1,
          warnings |-> <<>>,
          critical |-> <<"Database structure discovery failed: " \o listing.msg>>,
          connection |-> connection_context(conn, "exception")]
    ELSE LET acc == TableLoop(listing.value, envs, 1, DiscoveryStart)
         IN  [raised |-> FALSE, error |-> None,
              summary |-> DiscoverySummary(acc.discovered_tables),
              discovered_tables |-> acc.discovered_tables, queries |-> acc.queries,
              warnings |-> acc.warnings, critical |-> <<>>,
              connection |-> connection_context(conn, "return")]

\* isinstance(rule["config"], list): in VALIDATION_CONFIGURATIONS the rules
\* of these classes carry a list of items, the sanity rules one mapping.
IsListConfig(rule) ==
    rule.rule_class \in {"NullCheckRule", "NanCheckRule", "TimeSeriesValidationRule"}

\* validation_by_table_column after one item: a new key is appended, a known
\* one keeps its place; the rule class and the profile are added to its sets.
CoverItem(by_key, item, rule_class, config_name) ==
    LET key == item.table \o "." \o item.column
    IN  IF \E k \in DOMAIN by_key : by_key[k].key = key
        THEN [k \in DOMAIN by_key |->
                IF by_key[k].key = key
                THEN [by_key[k] EXCEPT !.validation_types = @ \cup {rule_class},
                                       !.configurations = @ \cup {config_name}]
                ELSE by_key[k]]
        ELSE Append(by_key, [key |-> key, table |-> item.table, column |-> item.column,
                             validation_types |-> {rule_class},
                             configurations |-> {config_name}])

\* for item in rule["config"]
RECURSIVE CoverItems(_, _, _, _, _)
CoverItems(by_key, items, rule_class, config_name, i) ==
    IF i > Len(items) THEN by_key
    ELSE CoverItems(CoverItem(by_key, items[i], rule_class, config_name),
                    items, rule_class, config_name, i + 1)

\* for rule in config["rules"]: only a list config is looked into.
RECURSIVE CoverRules(_, _, _, _)
CoverRules(by_key, rules, config_name, i) ==
    IF i > Len(rules) THEN by_key
    ELSE CoverRules(IF IsListConfig(rules[i])
                    THEN CoverItems(by_key, rules[i].config, rules[i].rule_class,
                                    config_name, 1)
                    ELSE by_key,
                    rules, config_name, i + 1)

\* An analysis that keeps the entries of the call before.
ResetCoverage_Keeps(coverage) == coverage

\* self.validation_coverage = []
ResetCoverage(coverage) == <<>>

\* (covered_columns / total_columns * 100) if total_columns > 0 else 0, the
\* quotient kept as a fraction.
CoveragePercentage(covered_columns, total_columns) ==
    IF total_columns > 0
    THEN [num |-> covered_columns * 100, den |-> total_columns]
    ELSE [num |-> 0, den |-> 1]

\* analyze_validation_coverage after its precondition: the coverage list
\* rebuilt from the comprehensive profile, and the statistics.
CoverageAnalysis(self) ==
    LET config_name == "comprehensive"
        by_key == CoverRules(<<>>, ConfigurationRules(config_name), config_name, 1)
        coverage == ResetCoverage(self.validation_coverage)
                    \o [k \in DOMAIN by_key |->
                          ValidationCoverage(by_key[k].table, by_key[k].column,
                                             by_key[k].validation_types,
                                             by_key[k].configurations)]
        covered_tables == {coverage[k].table : k \in DOMAIN coverage}
        total_discovered_tables ==
            {self.discovered_tables[k].table : k \in DOMAIN self.discovered_tables}
        uncovered_tables == total_discovered_tables \ covered_tables
        total_columns == SumColumnCount(self.discovered_tables)
        covered_columns == Len(coverage)
    IN  [raised |-> FALSE, error |-> None,
         validation_coverage |-> coverage,
         report |->
           [total_discovered_tables |-> Cardinality(total_discovered_tables),
            covered_tables |-> Cardinality(covered_tables),
            uncovered_tables |-> Cardinality(uncovered_tables),
            total_columns |-> total_columns,
            covered_columns |-> covered_columns,
            coverage_percentage |-> CoveragePercentage(covered_columns, total_columns),
            covered_table_list |-> covered_tables,
            uncovered_table_list |-> uncovered_tables,
            validation_details |-> coverage]]

\* An analysis without the precondition on discovered_tables.
analyze_validation_coverage_Silent(self) == CoverageAnalysis(self)

\* ValidationMonitor.analyze_validation_coverage
analyze_validation_coverage(self) ==
    IF self.discovered_tables = <<>>
    THEN [raised |-> TRUE,
          error |-> "No tables discovered. Run discover_database_structure() first.",
          validation_coverage |-> self.validation_coverage, report |-> PyNone]
    ELSE IF ~IsConfiguration("comprehensive")
    THEN [raised |-> TRUE,
          error |-> "Configuration 'comprehensive' not found in VALIDATION_CONFIGURATIONS",
          validation_coverage |-> self.validation_coverage, report |-> PyNone]
    ELSE CoverageAnalysis(self)

\* ------------------------------------------------------------ deviations
\* The sanity rules that compare capacities, and the key under which each
\* names the compared quantity in a sub-result.
DeviationRules ==
    {[cls |-> "EtragoElectricitySanityRule", key |-> "carrier"],
     [cls |-> "EtragoHeatSanityRule", key |-> "component"]}

\* A Python float: the exact value num/den, the side on which the stored
\* double lies (ulp: -1 below, 0 exact, 1 above), or infinity.
Float(num, den, ulp) == [inf |-> FALSE, num |-> num, den |-> den, ulp |-> ulp]

FloatInf == [inf |-> TRUE, num |-> 1, den |-> 1, ulp |-> 0]

\* How ((output_value - input_value) / input_value) * 100 rounds in IEEE-754
\* double arithmetic (round to nearest, ties to even) for the values the
\* model calls the function with: two roundings, of the quotient and of the
\* product. 7/100 and 87/20 are not binary fractions, and their products
\* with 100 miss the integer by one unit in the last place.
DoubleRounding(input_value, output_value) ==
    CASE <<input_value, output_value>> = <<100, 107>> -> 1
      [] <<input_value, output_value>> = <<100, 93>> -> -1
      [] <<input_value, output_value>> = <<20, 108>> -> 1
      [] <<input_value, output_value>> = <<20, 107>> -> -1
      [] OTHER -> 0

\* ((output_value - input_value) / input_value) * 100
DeviationPercent(input_value, output_value) ==
    Float((output_value - input_value) * 100, input_value,
          DoubleRounding(input_value, output_value))

\* abs(x)
FloatAbs(x) ==
    IF x.num < 0 THEN Float(-x.num, x.den, -x.ulp) ELSE x

\* x <= tolerance, for a non-negative x and a tolerance that is a whole number
FloatLeq(x, tolerance) ==
    /\ ~x.inf
    /\ \/ x.num < tolerance * x.den
       \/ x.num = tolerance * x.den /\ x.ulp <= 0

\* f"{x:.2f}": the double is within one unit in the last place of num/den
Format2f(x) ==
    LET mag == IF x.num < 0 THEN -x.num ELSE x.num
        h == (mag * 200 + x.den) \div (2 * x.den)
        frac == h % 100
    IN  (IF x.num < 0 /\ h > 0 THEN "-" ELSE "") \o ToString(h \div 100) \o "."
        \o (IF frac < 10 THEN "0" ELSE "") \o ToString(frac)

\* f"{tolerance}" of a float holding a whole number
FormatFloat(tolerance) == ToString(tolerance) \o ".0"

\* One sub-result of a capacity comparison, as validate returns it.
DeviationResult(rule, carrier, status, text_key, text, input_value, output_value, deviation) ==
    [raised |-> FALSE, error |-> None,
     value |-> (rule.key :> carrier) @@ (text_key :> text)
               @@ [status |-> status, input_capacity |-> input_value,
                   output_capacity |-> output_value, deviation_percent |-> deviation]]

\* rule._calculate_deviation(carrier, input_value, output_value, tolerance)
calculate_deviation(rule, carrier, input_value, output_value, tolerance) ==
    IF input_value = 0 /\ output_value = 0
    THEN DeviationResult(rule, carrier, "SUCCESS", "message",
           "No capacity for carrier '" \o carrier
           \o "' needed to be distributed. Everything is fine",
           input_value, output_value, Float(0, 1, 0))
    ELSE IF input_value > 0 /\ output_value = 0
    THEN DeviationResult(rule, carrier, "CRITICAL_FAILURE", "error",
           "Capacity for carrier '" \o carrier \o "' was not distributed at all!",
           input_value, output_value, Float(-100, 1, 0))
    ELSE IF output_value > 0 /\ input_value = 0
    THEN DeviationResult(rule, carrier, "CRITICAL_FAILURE", "error",
           "Even though no input capacity was provided for carrier '" \o carrier
           \o "', capacity got distributed!",
           input_value, output_value, FloatInf)
    ELSE IF input_value = 0
    THEN [raised |-> TRUE, error |-> "ZeroDivisionError: division by zero",
          value |-> PyNone]
    ELSE LET deviation_percent == DeviationPercent(input_value, output_value)
         IN  IF FloatLeq(FloatAbs(deviation_percent), tolerance)
             THEN DeviationResult(rule, carrier, "SUCCESS", "message",
                    carrier \o ": " \o Format2f(deviation_percent)
                    \o "% deviation (within tolerance)",
                    input_value, output_value, deviation_percent)
             ELSE DeviationResult(rule, carrier, "WARNING", "message",
                    carrier \o ": " \o Format2f(deviation_percent)
                    \o "% deviation (exceeds tolerance of " \o FormatFloat(tolerance) \o "%)",
                    input_value, output_value, deviation_percent)

\* ------------------------------------------------------------ the calls
\* The outcome of a call, as the caller sees it, with what the call met.
Call(op, args, raised, error, value, trace) ==
    [op |-> op, args |-> args, raised |-> raised, error |-> error,
     value |-> value, trace |-> trace]

NoCall == Call("init", <<>>, FALSE, None, None, <<>>)

\* Items of a batch config: two complete mappings and two that lack a key.
ItemConfigs ==
    {[table |-> "t1", column |-> "c1"], [table |-> "t2", column |-> "c2"],
     [table |-> "t1"], [column |-> "c2"]}

HasKeys(config) == {"table", "column"} \subseteq DOMAIN config

\* An item with what its check meets; an item that lacks a key never
\* reaches its check, so one environment stands for all.
Items ==
    {[config |-> c, env |-> e] : c \in {x \in ItemConfigs : HasKeys(x)}, e \in ItemEnvs}
    \cup {[config |-> c, env |-> ItemEnv("rows", 2, 0, "")] :
            c \in {x \in ItemConfigs : ~HasKeys(x)}}

Batches == SeqsUpTo(Items, MaxItems)

\* The rule instance: NullCheckRule when every item met the database only,
\* otherwise some other subclass of BatchValidationRule.
BatchSelf(envs) ==
    IF \A i \in DOMAIN envs : envs[i].kind \in {"rows", "sqlerror"}
    THEN [rule_name |-> "null_check", module_name |-> "src.rules.formal.null_check_rule"]
    ELSE [rule_name |-> "custom_check", module_name |-> "custom_rules"]

\* The batches tried on a connection: when the scope is never entered no
\* item meets its environment, so one environment stands for all.
ConnBatches(conn) ==
    IF conn.ok THEN Batches
    ELSE {b \in Batches : \A i \in DOMAIN b : b[i].env = ItemEnv("rows", 2, 0, "")}

\* rule.validate(table_column_configs)
Validate ==
    \E conn \in Conns :
    \E batch \in ConnBatches(conn) :
        LET configs == [i \in 1..Len(batch) |-> batch[i].config]
            envs == [i \in 1..Len(batch) |-> batch[i].env]
            v == validate(BatchSelf(envs), configs, conn, envs)
        IN  /\ ret' = Call("validate",
                           [configs |-> configs, conn |-> conn, envs |-> envs],
                           FALSE, None, v.result,
                           [acquired |-> v.acquired,
                            loop_completed |-> v.loop_completed,
                            invoked |-> v.invoked,
                            connection |-> v.connection])
            /\ UNCHANGED <<validation_rules, results, monitor_vars>>

\* The selves a base-rule helper is called on, with the tables, messages
\* and failure statuses it is given.
HelperSelves ==
    {[rule_name |-> "null_check", module_name |-> "src.rules.formal.null_check_rule"],
     [rule_name |-> "EtragoElectricitySanityCheck",
      module_name |-> "src.rules.sanity.etrago_electricity_sanity_rule"]}

HelperTables == {"multiple_tables", "grid.egon_etrago_*"}

HelperTexts == {"", "No refinement data found"}

FailureStatuses == {"CRITICAL_FAILURE", "WARNING"}

\* rule._create_success_result(table, message)
CreateSuccessResult ==
    \E self \in HelperSelves, table \in HelperTables, message \in HelperTexts :
        /\ ret' = Call("_create_success_result",
                       [self |-> self, table |-> table, message |-> message],
                       FALSE, None, create_success_result(self, table, message), <<>>)
        /\ UNCHANGED <<validation_rules, results, monitor_vars>>

\* rule._create_failure_result(table, error_details, status)
CreateFailureResult ==
    \E self \in HelperSelves, table \in HelperTables, error_details \in HelperTexts,
       status \in FailureStatuses :
        /\ ret' = Call("_create_failure_result",
                       [self |-> self, table |-> table, error_details |-> error_details,
                        status |-> status],
                       FALSE, None,
                       create_failure_result(self, table, error_details, status), <<>>)
        /\ UNCHANGED <<validation_rules, results, monitor_vars>>

\* What a sanity validate can meet: up to MaxSubs sub-results, an exception,
\* or (for the rules that test for it) no data.
SanityEnvs(rule) ==
    {SanityEnv("subs", subs, None) :
       subs \in SeqsUpTo({[status |-> x] : x \in SubStatuses}, MaxSubs)}
    \cup {SanityEnv("error", <<>>, "connection lost")}
    \cup (IF rule.nodata.returns THEN {SanityEnv("nodata", <<>>, None)} ELSE {})
    \cup (IF rule.query_caught_by = "sub-check"
          THEN {SanityEnv("queryfail", subs, "connection lost") :
                  subs \in {x \in SeqsUpTo({[status |-> y] : y \in SubStatuses}, MaxSubs) :
                              \E i \in DOMAIN x : x[i].status = "CRITICAL_FAILURE"}}
          ELSE {SanityEnv("queryfail", <<>>, "connection lost")})

\* <SanityRule>(db_manager).validate(config)
SanityValidate ==
    \E rule \in SanityRules :
      \E env \in SanityEnvs(rule) :
        LET r == sanity_validate(rule, env)
        IN  /\ ret' = Call("sanity_validate", [cls |-> rule.cls, env |-> env],
                           r.raised, r.msg, r.value, <<>>)
            /\ UNCHANGED <<validation_rules, results, monitor_vars>>

\* The registrations of the manual setup, and a second registration of its
\* first name.
RegisterArgs ==
    {RuleDef("test_null_checks", "NullCheckRule",
       <<TC("demand.egon_demandregio_hh", "demand"),
         TC("demand.egon_demandregio_hh", "nuts3")>>),
     RuleDef("test_null_checks", "NanCheckRule",
       <<TC("demand.egon_demandregio_hh", "demand")>>),
     RuleDef("test_time_series", "TimeSeriesValidationRule",
       <<TS("grid.egon_etrago_load_timeseries", "p_set")>>)}

\* orchestrator.register_rule(name, rule_class, rule_config)
RegisterRule ==
    \E a \in RegisterArgs :
        /\ validation_rules' = register_rule(validation_rules, a.name, a.rule_class, a.config)
        /\ ret' = Call("register_rule", a, FALSE, None, None,
                       [existed |-> \E i \in DOMAIN validation_rules :
                                       validation_rules[i].name = a.name])
        /\ UNCHANGED <<results, monitor_vars>>

\* The names load_configuration is called with.
ConfigNames ==
    {ConfigurationKeys[i] : i \in DOMAIN ConfigurationKeys} \cup {"no_such_config"}

\* orchestrator.load_configuration(config_name)
LoadConfiguration ==
    \E config_name \in ConfigNames :
        LET r == load_configuration(validation_rules, config_name)
        IN  /\ validation_rules' = r.validation_rules
            /\ ret' = Call("load_configuration", [config_name |-> config_name],
                           r.raised, r.error, None,
                           [registered_before |-> Len(validation_rules)])
            /\ UNCHANGED <<results, monitor_vars>>

\* The profiles quick_setup is called with.
QuickSetupNames == {"quick_check", "comprehensive"}

\* orchestrator.quick_setup(config_name): load_configuration, return self.
QuickSetup ==
    \E config_name \in QuickSetupNames :
        LET r == load_configuration(validation_rules, config_name)
        IN  /\ validation_rules' = r.validation_rules
            /\ ret' = Call("quick_setup", [config_name |-> config_name],
                           r.raised, r.error, None, <<>>)
            /\ UNCHANGED <<results, monitor_vars>>

\* orchestrator.run_all_validations(), for at most MaxRules registered rules.
RunAll ==
    /\ Len(validation_rules) <= MaxRules
    /\ \E outs \in [1..Len(validation_rules) -> RuleOutcomes] :
        LET r == run_all_validations(validation_rules, outs)
        IN  /\ results' = r.results
            /\ ret' = Call("run_all_validations", [outs |-> outs],
                           r.raised, r.error, r.report,
                           [ran |-> RuleNames(validation_rules), executed |-> r.executed])
            /\ UNCHANGED <<validation_rules, monitor_vars>>

\* The name lists run_specific_validations is called with.
SelectionLists ==
    {<<>>, <<"test_null_checks">>,
     <<"test_time_series", "test_null_checks", "test_time_series">>,
     <<"critical_null_checks", "no_such_rule">>}

\* orchestrator.run_specific_validations(rule_names), for at most MaxRules
\* selected rules.
RunSpecific ==
    \E rule_names \in SelectionLists :
        LET filtered == FilterRules(validation_rules, rule_names)
        IN  /\ Len(filtered) <= MaxRules
            /\ \E outs \in [1..Len(filtered) -> RuleOutcomes] :
                LET r == run_specific_validations(validation_rules, rule_names, outs)
                IN  /\ validation_rules' = r.validation_rules
                    /\ results' = r.results
                    /\ UNCHANGED monitor_vars
                    /\ ret' = Call("run_specific_validations",
                                   [rule_names |-> rule_names, outs |-> outs],
                                   r.raised, r.error, r.report,
                                   [ran |-> RuleNames(filtered), executed |-> r.executed])

\* test_orchestrator_manual_setup: a new orchestrator, two registrations,
\* one run; the orchestrator is local to the call.
ManualSetupRun ==
    \E outs \in [1..2 -> RuleOutcomes] :
        LET first == CHOOSE a \in RegisterArgs : a.rule_class = "NullCheckRule"
            second == CHOOSE a \in RegisterArgs : a.name = "test_time_series"
            rules == register_rule(
                       register_rule(<<>>, first.name, first.rule_class, first.config),
                       second.name, second.rule_class, second.config)
            r == run_all_validations(rules, outs)
        IN  /\ ret' = Call("manual_setup", [outs |-> outs], r.raised, r.error, r.report,
                           [ran |-> RuleNames(rules), results |-> r.results,
                            executed |-> r.executed])
            /\ UNCHANGED <<validation_rules, results, monitor_vars>>

\* The table listings of at most MaxTables rows.
Listings ==
    {PickRows(PgTables, S, 1) :
        S \in {T \in SUBSET (1..Len(PgTables)) : Cardinality(T) <= MaxTables}}

\* The monitor as its methods see it.
MonitorSelf ==
    [discovered_tables |-> discovered_tables, validation_coverage |-> validation_coverage]

\* monitor.discover_database_structure(), the database answering one of the
\* listings, an error to the listing, or no connection.
Discover ==
    \E conn \in Conns :
    \E listing \in {QueryReturned(rows) : rows \in Listings} \cup {QueryRaised("connection reset")} :
    \E envs \in [1..(IF listing.raised \/ ~conn.ok THEN 0 ELSE Len(listing.value)) -> TableEnvs] :
        /\ conn.ok \/ (~listing.raised /\ listing.value = <<>>)
        /\ LET r == discover_database_structure(MonitorSelf, conn, listing, envs)
           IN  /\ discovered_tables' = r.discovered_tables
               /\ ret' = Call("discover_database_structure",
                              [conn |-> conn, listing |-> listing, envs |-> envs],
                              r.raised, r.error, r.summary,
                              [queries |-> r.queries, warnings |-> r.warnings,
                               critical |-> r.critical, connection |-> r.connection])
               /\ UNCHANGED <<validation_rules, results, validation_coverage>>

\* monitor.analyze_validation_coverage()
Analyze ==
    LET r == analyze_validation_coverage(MonitorSelf)
    IN  /\ validation_coverage' = r.validation_coverage
        /\ ret' = Call("analyze_validation_coverage",
                       [discovered_tables |-> discovered_tables,
                        validation_coverage |-> validation_coverage],
                       r.raised, r.error, r.report, [queries |-> 0])
        /\ UNCHANGED <<validation_rules, results, discovered_tables>>

\* The capacities and tolerances a comparison is made with: nothing, a
\* small and a round input, outputs on, next to and far from the tolerance,
\* and a negative sum.
DeviationInputs == {0, 20, 100}

DeviationOutputs == {-5, 0, 21, 93, 100, 105, 107, 108}

DeviationTolerances == {5, 7, 10}

\* rule._calculate_deviation(carrier, input_value, output_value, tolerance)
CalculateDeviation ==
    \E rule \in DeviationRules, input_value \in DeviationInputs,
       output_value \in DeviationOutputs, tolerance \in DeviationTolerances :
        LET r == calculate_deviation(rule, "wind_onshore", input_value,
                                     output_value, tolerance)
        IN  /\ ret' = Call("_calculate_deviation",
                           [cls |-> rule.cls, carrier |-> "wind_onshore",
                            input_value |-> input_value, output_value |-> output_value,
                            tolerance |-> tolerance],
                           r.raised, r.error, r.value, <<>>)
        /\ UNCHANGED <<validation_rules, results, monitor_vars>>

\* What the null check's query can answer: the counts of a table of up to
\* MaxRows rows, or an error of the database.
NullCheckEnvs ==
    {e \in {ItemEnv("rows", total_rows, null_count, "") :
              total_rows \in 0..MaxRows, null_count \in 0..MaxRows} :
       e.null_count <= e.total_rows}
    \cup {ItemEnv("sqlerror", 0, 0, msg) :
            msg \in {"relation does not exist", "connection lost"}}

\* NullCheckRule(db_manager)._validate_single_column(engine, table, column)
ValidateSingleColumn ==
    \E config \in {x \in ItemConfigs : HasKeys(x)}, env \in NullCheckEnvs :
        LET r == NullCheck_validate_single_column(config.table, config.column, env)
        IN  /\ ret' = Call("_validate_single_column",
                           [table |-> config.table, column |-> config.column, env |-> env],
                           r.raised, r.msg, r.value, <<>>)
            /\ UNCHANGED <<validation_rules, results, monitor_vars>>

Init ==
    /\ validation_rules = <<>>
    /\ results = <<>>
    /\ discovered_tables = <<>>
    /\ validation_coverage = <<>>
    /\ ret = NoCall

\* The batch rule alone.
NextBatch == Validate

SpecBatch == Init /\ [][NextBatch]_vars

\* Everything that produces a ValidationResult.
NextResults ==
    \/ CreateSuccessResult
    \/ CreateFailureResult
    \/ Validate
    \/ SanityValidate
    \/ ManualSetupRun

SpecResults == Init /\ [][NextResults]_vars

\* The orchestrator's registry.
NextRegistry ==
    \/ RegisterRule
    \/ LoadConfiguration

SpecRegistry == Init /\ [][NextRegistry]_vars

\* The monitor: discoveries and coverage analyses in any order.
NextMonitor == Discover \/ Analyze

SpecMonitor == Init /\ [][NextMonitor]_vars

\* The checks of one item alone: a capacity comparison, a null check.
NextChecks ==
    \/ CalculateDeviation
    \/ ValidateSingleColumn

SpecChecks == Init /\ [][NextChecks]_vars

\* The orchestrator, set up and run.
Next ==
    \/ RegisterRule
    \/ QuickSetup
    \/ RunAll
    \/ RunSpecific

Spec == Init /\ [][Next]_vars

\* ------------------------------------------------------- batch claims
\* C1: per-item isolation.  In a batch of N items that all carry table and
\* column, where the check raises for some item k and every other item's
\* check raises or returns a per-item outcome mapping, validate returns a
\* result (it does not raise), the check is invoked for all N items in order,
\* detailed_results has exactly N entries, total_validations is N, the entry
\* of each raising item is FAILED and carries the exception message, and
\* failed counts every failing item, item k among them.
C1_PerItemIsolation ==
    (/\ ret.op = "validate"
     /\ ret.args.conn.ok
     /\ \A i \in DOMAIN ret.args.configs : HasKeys(ret.args.configs[i])
     /\ \A i \in DOMAIN ret.args.envs : ret.args.envs[i].kind \in {"rows", "sqlerror", "raise"}
     /\ \E k \in DOMAIN ret.args.envs : ret.args.envs[k].kind = "raise")
    => LET N == Len(ret.args.configs)
           envs == ret.args.envs
           ctx == ret.value.detailed_context
           failing == {i \in 1..N : ~(envs[i].kind = "rows" /\ envs[i].null_count = 0)}
       IN  /\ ~ret.raised
           /\ ret.trace.invoked = [i \in 1..N |-> i]
           /\ ctx.present
           /\ Len(ctx.detailed_results) = N
           /\ ctx.total_validations = N
           /\ ctx.failed = Cardinality(failing)
           /\ \A k \in 1..N : envs[k].kind = "raise" =>
                /\ k \in failing
                /\ ctx.detailed_results[k].status = "FAILED"
                /\ ctx.detailed_results[k].error = envs[k].msg
                /\ ctx.detailed_results[k].table = ret.args.configs[k].table
                /\ ctx.detailed_results[k].column = ret.args.configs[k].column

\* C1 witness: the first of two items raised and the second was still checked.
C1_Witness ==
    /\ ret.op = "validate"
    /\ ret.args.conn.ok
    /\ Len(ret.args.configs) = 2
    /\ \A i \in 1..2 : HasKeys(ret.args.configs[i])
    /\ ret.args.envs[1].kind = "raise"
    /\ ret.args.envs[2].kind = "rows"
    /\ ret.trace.invoked = <<1, 2>>
    /\ ret.value.detailed_context.present
    /\ ret.value.detailed_context.failed = 1

\* C3: batch status derivation.  Whenever validate completes its item loop,
\* failed is the number of failing items, the status is SUCCESS iff failed is
\* 0, a SUCCESS result reads "All <total> validations passed", and any other
\* result is CRITICAL_FAILURE with error_details
\* "<failed> of <total> validations failed: " followed by the table.column
\* keys of the failed items in config order.
C3_BatchStatusDerivation ==
    (ret.op = "validate" /\ ret.trace.loop_completed)
    => LET N == Len(ret.args.configs)
           envs == ret.args.envs
           r == ret.value
           ctx == r.detailed_context
           Fails(i) == ~(envs[i].kind = "rows" /\ envs[i].null_count = 0)
           failed_items == SelectSeq([i \in 1..N |-> i], Fails)
           keys == [j \in 1..Len(failed_items) |->
                      ret.args.configs[failed_items[j]].table \o "."
                        \o ret.args.configs[failed_items[j]].column]
       IN  /\ ctx.failed = Len(failed_items)
           /\ (r.status = "SUCCESS") <=> (ctx.failed = 0)
           /\ ctx.failed = 0 =>
                /\ r.message = "All " \o ToString(N) \o " validations passed"
                /\ r.error_details = None
           /\ N = 0 => r.status = "SUCCESS" /\ r.message = "All 0 validations passed"
           /\ ctx.failed # 0 =>
                /\ r.status = "CRITICAL_FAILURE"
                /\ r.error_details =
                     ToString(ctx.failed) \o " of " \o ToString(N)
                       \o " validations failed: " \o Join(keys, ", ")

\* C3 witness: of two items the second reports NULL values.
C3_Witness ==
    /\ ret.op = "validate"
    /\ ret.trace.loop_completed
    /\ Len(ret.args.configs) = 2
    /\ ret.args.envs[1] = ItemEnv("rows", 2, 0, "")
    /\ ret.args.envs[2] = ItemEnv("rows", 2, 1, "")
    /\ ret.value.status = "CRITICAL_FAILURE"
    /\ ret.value.error_details = "1 of 2 validations failed: t2.c2"

\* C6: batch-level connection failure.  When acquiring the shared connection
\* fails, no item's check is invoked and the result is CRITICAL_FAILURE with
\* table "multiple_tables", error_details carrying the connection error
\* message, and no detailed_context.
C6_ConnectionFailure ==
    (ret.op = "validate" /\ ~ret.args.conn.ok)
    => /\ ~ret.raised
       /\ ret.trace.invoked = <<>>
       /\ ret.value.status = "CRITICAL_FAILURE"
       /\ ret.value.table = "multiple_tables"
       /\ ret.value.error_details
            = "Batch validation execution failed: " \o ret.args.conn.msg
       /\ ret.value.message = None
       /\ ~ret.value.detailed_context.present

\* C6 witness: a batch of two items whose connection could not be acquired.
C6_Witness ==
    /\ ret.op = "validate"
    /\ ~ret.args.conn.ok
    /\ Len(ret.args.configs) = 2
    /\ ~ret.trace.acquired
    /\ ret.value.status = "CRITICAL_FAILURE"

\* ------------------------------------------------ orchestrator claims
\* C2: per-rule isolation.  When run_all_validations runs M registered rules
\* of which some rule j's constructor or validate raises an exception, and
\* every other rule raises an exception or returns a ValidationResult, the
\* call does not raise; the report has exactly M detailed_results, one per
\* rule in registration order (so every rule after j ran); the entry of each
\* raising rule is a synthetic CRITICAL_FAILURE result with table "unknown"
\* carrying the exception message; each raising rule is in failed_rule_names;
\* and passed_rules + failed_rules = total_rules = M.
C2_PerRuleIsolation ==
    (/\ ret.op = "run_all_validations"
     /\ \A i \in DOMAIN ret.args.outs :
          ret.args.outs[i].kind \in {"ctor_raise", "validate_raise", "result"}
     /\ \E j \in DOMAIN ret.args.outs :
          ret.args.outs[j].kind \in {"ctor_raise", "validate_raise"})
    => LET M == Len(ret.trace.ran)
           outs == ret.args.outs
           report == ret.value
       IN  /\ ~ret.raised
           /\ Len(report.detailed_results) = M
           /\ report.total_rules = M
           /\ report.passed_rules + report.failed_rules = M
           /\ report.passed_rules = Len(report.passed_rule_names)
           /\ report.failed_rules = Len(report.failed_rule_names)
           /\ results = report.detailed_results
           /\ \A i \in 1..M : report.detailed_results[i].rule_name = ret.trace.ran[i]
           /\ \A j \in 1..M : outs[j].kind \in {"ctor_raise", "validate_raise"} =>
                /\ report.detailed_results[j].result.status = "CRITICAL_FAILURE"
                /\ report.detailed_results[j].result.table = "unknown"
                /\ report.detailed_results[j].result.rule_name = ret.trace.ran[j]
                /\ report.detailed_results[j].result.error_details
                     = "Rule execution failed: " \o outs[j].msg
                /\ \E k \in DOMAIN report.failed_rule_names :
                     report.failed_rule_names[k] = ret.trace.ran[j]
                /\ Cardinality({k \in 1..M :
                     report.detailed_results[k].rule_name = ret.trace.ran[j]}) = 1

\* C2 witness: the first of two rules raised in validate and the second
\* still ran and passed.
C2_Witness ==
    /\ ret.op = "run_all_validations"
    /\ ~ret.raised
    /\ Len(ret.trace.ran) = 2
    /\ ret.args.outs[1].kind = "validate_raise"
    /\ ret.args.outs[2] = RuleOutcome("result", "SUCCESS", None)
    /\ ret.value.passed_rule_names = <<ret.trace.ran[2]>>
    /\ ret.value.failed_rule_names = <<ret.trace.ran[1]>>

\* C4: run status derivation.  In every report returned by
\* run_all_validations, overall_status is SUCCESS iff failed_rules is 0, and
\* a rule is in failed_rule_names exactly when its result status is not
\* SUCCESS (WARNING included), it returned no result, or its execution raised.
C4_RunStatusDerivation ==
    (ret.op = "run_all_validations" /\ ~ret.raised)
    => LET M == Len(ret.trace.ran)
           outs == ret.args.outs
           report == ret.value
           Passes(i) == outs[i].kind = "result" /\ outs[i].status = "SUCCESS"
           InList(name, names) == \E k \in DOMAIN names : names[k] = name
       IN  /\ (report.overall_status = "SUCCESS") <=> (report.failed_rules = 0)
           /\ report.overall_status \in {"SUCCESS", "CRITICAL_FAILURE"}
           /\ report.failed_rules = Cardinality({i \in 1..M : ~Passes(i)})
           /\ report.failed_rules = Len(report.failed_rule_names)
           /\ \A i \in 1..M :
                /\ Passes(i) <=> InList(ret.trace.ran[i], report.passed_rule_names)
                /\ ~Passes(i) <=> InList(ret.trace.ran[i], report.failed_rule_names)

\* C4 witness: a run whose only non-success is a WARNING result.
C4_Witness ==
    /\ ret.op = "run_all_validations"
    /\ ~ret.raised
    /\ Len(ret.trace.ran) = 2
    /\ ret.args.outs[1] = RuleOutcome("result", "SUCCESS", None)
    /\ ret.args.outs[2] = RuleOutcome("result", "WARNING", None)
    /\ ret.value.overall_status = "CRITICAL_FAILURE"
    /\ ret.value.failed_rules = 1

\* C7: run_specific_validations leaves the registrations as they were before
\* the call, whether the filtered run returns or raises.
C7_RegistrationsRestored ==
    [][ret'.op = "run_specific_validations" => validation_rules' = validation_rules]_vars

\* C8: load_configuration with a name that is not a profile raises an error
\* that enumerates the known profile names and leaves the registrations (and
\* the stored results) exactly as they were.
C8_UnknownProfile ==
    [][(ret'.op = "load_configuration" /\ ret'.args.config_name = "no_such_config")
       => /\ ret'.raised
          /\ ret'.error = "Configuration 'no_such_config' not found. Available: "
               \o "['comprehensive', 'critical_only', 'time_series_only', "
               \o "'null_checks_only', 'quick_check', 'sanity_checks']"
          /\ validation_rules' = validation_rules
          /\ results' = results]_vars

\* C8 witness: the unknown name was refused while rules were registered.
C8_Witness ==
    /\ ret.op = "load_configuration"
    /\ ret.raised
    /\ ret.trace.registered_before > 0
    /\ Len(validation_rules) = ret.trace.registered_before

\* C9: load_configuration with a known profile name replaces all
\* registrations: afterwards the registry is exactly the profile's rules, in
\* profile order, each with the profile's rule_class and config, whatever was
\* registered before.
C9_ProfileReplaces ==
    [][(ret'.op = "load_configuration" /\ IsConfiguration(ret'.args.config_name))
       => LET profile ==
                VALIDATION_CONFIGURATIONS[
                  CHOOSE i \in 1..6 :
                    VALIDATION_CONFIGURATIONS[i].name = ret'.args.config_name].rules
          IN  /\ ~ret'.raised
              /\ Len(validation_rules') = Len(profile)
              /\ \A i \in 1..Len(profile) :
                   /\ validation_rules'[i].name = profile[i].name
                   /\ validation_rules'[i].rule_class = profile[i].rule_class
                   /\ validation_rules'[i].config = profile[i].config]_vars

\* C9 witness: a profile of one rule was loaded over two earlier registrations.
C9_Witness ==
    /\ ret.op = "load_configuration"
    /\ ~ret.raised
    /\ ret.args.config_name = "quick_check"
    /\ ret.trace.registered_before = 2
    /\ Len(validation_rules) = 1
    /\ validation_rules[1].name = "basic_null_check"

\* C10: register_rule is last-write-wins per name: after the call the
\* registry holds exactly one entry per name, the entry of the registered
\* name carries the call's rule_class and config, and the entries of all
\* other names are unchanged.
C10_LastWriteWins ==
    [][ret'.op = "register_rule"
       => LET a == ret'.args
              old == validation_rules
              new == validation_rules'
          IN  /\ \A i, j \in DOMAIN new : new[i].name = new[j].name => i = j
              /\ \E i \in DOMAIN new :
                   /\ new[i].name = a.name
                   /\ new[i].rule_class = a.rule_class
                   /\ new[i].config = a.config
              /\ \A i \in DOMAIN old : old[i].name # a.name =>
                   \E j \in DOMAIN new : new[j].name = old[i].name /\ new[j] = old[i]
              /\ \A j \in DOMAIN new : new[j].name # a.name =>
                   \E i \in DOMAIN old : old[i].name = new[j].name /\ old[i] = new[j]]_vars

\* C10 witness: a name registered earlier was registered again with another
\* class while another name was registered.
C10_Witness ==
    /\ ret.op = "register_rule"
    /\ ret.trace.existed
    /\ ret.args.rule_class = "NanCheckRule"
    /\ Len(validation_rules) = 2
    /\ \E i \in 1..2 : validation_rules[i].name = ret.args.name
                       /\ validation_rules[i].rule_class = "NanCheckRule"
    /\ \E i \in 1..2 : validation_rules[i].name = "test_time_series"

\* --------------------------------------------------------- result claims
\* C5: message/error mutual exclusivity.  Every ValidationResult produced by
\* the base-rule helpers, by BatchValidationRule.validate, by the sanity
\* rules' validate, and every result stored by a run (the orchestrator's
\* synthetic error result included) satisfies: status SUCCESS implies a
\* non-null message and a null error_details; status WARNING or
\* CRITICAL_FAILURE implies a non-null error_details.
C5_MessageErrorExclusivity ==
    LET P4(r) ==
          /\ r.status = "SUCCESS" => (r.message # None /\ r.error_details = None)
          /\ r.status \in {"WARNING", "CRITICAL_FAILURE"} => r.error_details # None
    IN  /\ ret.op \in {"_create_success_result", "_create_failure_result", "validate"}
             => P4(ret.value)
        /\ (ret.op = "sanity_validate" /\ ~ret.raised) => P4(ret.value)
        /\ ret.op = "manual_setup" =>
             \A i \in DOMAIN ret.trace.results :
               "status" \in DOMAIN ret.trace.results[i].result
                 => P4(ret.trace.results[i].result)

\* C5 witness: the electricity sanity rule returned a WARNING result that
\* carries error_details.
C5_Witness ==
    /\ ret.op = "sanity_validate"
    /\ ~ret.raised
    /\ ret.args.cls = "EtragoElectricitySanityRule"
    /\ ret.value.status = "WARNING"
    /\ ret.value.error_details = "Found 1 warnings in electricity sanity check"

\* -------------------------------------------------------- order of a run
\* C11: run_all_validations takes the registered rules one after another in
\* registration order.  A first registration of a name puts it after all
\* registered names and a later registration of the name keeps its place;
\* a run begins the rules in the registry's order (all of them when it
\* returns); detailed_results lists them in that order, and
\* passed_rule_names and failed_rule_names are the passing and the failing
\* rules in that same order.
C11_RegistrationOrder ==
    [][/\ ret'.op = "register_rule" =>
            RuleNames(validation_rules')
              = IF ret'.trace.existed
                THEN RuleNames(validation_rules)
                ELSE Append(RuleNames(validation_rules), ret'.args.name)
       /\ ret'.op = "run_all_validations" =>
            LET ran == RuleNames(validation_rules)
                outs == ret'.args.outs
                Passes(i) == outs[i].kind = "result" /\ outs[i].status = "SUCCESS"
                Fails(i) == ~Passes(i)
                indices == [i \in 1..Len(ran) |-> i]
                Pos(name) == CHOOSE i \in 1..Len(ran) : ran[i] = name
            IN  /\ Len(ret'.trace.executed) <= Len(ran)
                /\ \A i \in DOMAIN ret'.trace.executed : ret'.trace.executed[i] = ran[i]
                /\ ~ret'.raised =>
                     /\ ret'.trace.executed = ran
                     /\ ret'.value.passed_rule_names
                          = [k \in 1..Len(SelectSeq(indices, Passes)) |->
                               ran[SelectSeq(indices, Passes)[k]]]
                     /\ ret'.value.failed_rule_names
                          = [k \in 1..Len(SelectSeq(indices, Fails)) |->
                               ran[SelectSeq(indices, Fails)[k]]]
                     /\ \A i \in 1..Len(ran) :
                          \E k \in DOMAIN ret'.value.detailed_results :
                            ret'.value.detailed_results[k].rule_name = ran[i]
                     /\ \A k, l \in DOMAIN ret'.value.detailed_results :
                          k < l => Pos(ret'.value.detailed_results[k].rule_name)
                                     <= Pos(ret'.value.detailed_results[l].rule_name)]_vars

\* C11 witness: two rules ran in registration order; the first failed with a
\* WARNING and the second passed.
C11_Witness ==
    /\ ret.op = "run_all_validations"
    /\ ~ret.raised
    /\ ret.trace.executed = <<"test_null_checks", "test_time_series">>
    /\ ret.args.outs[1] = RuleOutcome("result", "WARNING", None)
    /\ ret.args.outs[2] = RuleOutcome("result", "SUCCESS", None)
    /\ ret.value.failed_rule_names = <<"test_null_checks">>
    /\ ret.value.passed_rule_names = <<"test_time_series">>
    /\ Len(ret.value.detailed_results) = 2
    /\ ret.value.detailed_results[1].rule_name = "test_null_checks"

\* C12: ordering precondition of the coverage analysis.  A monitor starts
\* with no discovered tables and a discovery that raises leaves that list as
\* it was, so until a discovery completes the list is empty; and whenever
\* analyze_validation_coverage is called on an empty list it raises the
\* ValueError "No tables discovered...", returns no report and leaves
\* validation_coverage as it was.
C12_AnalyzeBeforeDiscovery ==
    [][/\ (ret'.op = "discover_database_structure" /\ ret'.raised)
            => discovered_tables' = discovered_tables
       /\ (ret'.op = "analyze_validation_coverage" /\ discovered_tables = <<>>)
            => /\ ret'.raised
               /\ ret'.error = "No tables discovered. Run discover_database_structure() first."
               /\ ret'.value = PyNone
               /\ validation_coverage' = validation_coverage
               /\ discovered_tables' = <<>>]_vars

\* An analysis was called on a monitor without discovered tables and raised.
C12_Witness ==
    /\ ret.op = "analyze_validation_coverage"
    /\ ret.args.discovered_tables = <<>>
    /\ ret.raised
    /\ discovered_tables = <<>>

\* C13: per-table discovery isolation.  A discovery whose connection and
\* table listing succeed does not raise, whatever the column and row-count
\* queries of the listed tables do; its result and discovered_tables hold
\* exactly the listed tables whose two queries both succeeded, in listing
\* order, each with the columns its query answered; total_tables and
\* total_columns count those tables only.
C13_PerTableIsolation ==
    (ret.op = "discover_database_structure" /\ ret.args.conn.ok /\ ~ret.args.listing.raised)
    => LET rows == ret.args.listing.value
           envs == ret.args.envs
           ok == {i \in DOMAIN rows : ~envs[i].columns.raised /\ ~envs[i].row_count.raised}
           idx == PickRows([i \in DOMAIN rows |-> i], ok, 1)
           tables == ret.value.tables
       IN  /\ ~ret.raised
           /\ discovered_tables = tables
           /\ Len(tables) = Cardinality(ok)
           /\ \A k \in DOMAIN tables :
                 /\ tables[k].table = rows[idx[k]].full_table_name
                 /\ tables[k].schema = rows[idx[k]].schema_name
                 /\ tables[k].columns = envs[idx[k]].columns.value
                 /\ tables[k].column_count = Len(envs[idx[k]].columns.value)
           /\ ret.value.total_tables = Cardinality(ok)
           /\ ret.value.total_columns = SumColumnCount(tables)
           /\ Len(ret.trace.warnings) = Len(rows) - Cardinality(ok)

\* Two tables were listed; a query of the first failed and the second was
\* still included.
C13_Witness ==
    /\ ret.op = "discover_database_structure"
    /\ ~ret.raised
    /\ Len(ret.args.listing.value) = 2
    /\ ret.args.envs[1].columns.raised \/ ret.args.envs[1].row_count.raised
    /\ Len(discovered_tables) = 1
    /\ discovered_tables[1].table = ret.args.listing.value[2].full_table_name
    /\ ret.value.total_columns = 2

\* C14: division safety.  When analyze_validation_coverage is called right
\* after a discovery that completed, and the discovered tables have 0
\* columns in total, it returns a report whose coverage_percentage is 0 and
\* does not raise.  (Before any discovery the claim C12 asks for an error, so
\* the property is stated for a completed discovery only.)
C14_DivisionSafety ==
    [][(/\ ret.op = "discover_database_structure"
        /\ ~ret.raised
        /\ ret'.op = "analyze_validation_coverage"
        /\ SumColumnCount(discovered_tables) = 0)
       => (/\ ~ret'.raised
           /\ ret'.value.coverage_percentage.num = 0)]_vars

\* C15: coverage determinism.  Every analysis issues no database query and
\* its report is the one computed from the discovered tables and the
\* comprehensive profile alone, whatever validation_coverage held before;
\* an analysis that directly follows another one, with the discovered tables
\* unchanged, raises or returns as the first did, returns the same report
\* and leaves validation_coverage as the first left it, with no entry added.
C15_CoverageDeterminism ==
    [][ret'.op = "analyze_validation_coverage"
       => LET fresh == analyze_validation_coverage(
                          [discovered_tables |-> discovered_tables,
                           validation_coverage |-> <<>>])
          IN  /\ ret'.trace.queries = 0
              /\ discovered_tables' = discovered_tables
              /\ ret'.raised = fresh.raised
              /\ ret'.value = fresh.report
              /\ ~ret'.raised => validation_coverage' = fresh.validation_coverage
              /\ ret.op = "analyze_validation_coverage"
                   => /\ ret'.raised = ret.raised
                      /\ ret'.value = ret.value
                      /\ validation_coverage' = validation_coverage]_vars

\* A second analysis returned: validation_coverage already held the entries
\* of the first and holds the same ones afterwards.
C15_Witness ==
    /\ ret.op = "analyze_validation_coverage"
    /\ ~ret.raised
    /\ ret.args.validation_coverage # <<>>
    /\ validation_coverage = ret.args.validation_coverage
    /\ ret.value.validation_details = validation_coverage

\* C16: coverage extraction.  After an analysis that returns, the entries of
\* validation_coverage are, each once, exactly the (table, column) pairs that
\* the rules of the comprehensive profile refer to, in the items of a list
\* config or in the mapping of a single config; each entry carries the set of
\* the rule classes that refer to its pair; covered_columns is the number of
\* entries and coverage_percentage is covered_columns / total_columns x 100.
C16_CoverageExtraction ==
    (ret.op = "analyze_validation_coverage" /\ ~ret.raised)
    => LET rules == ConfigurationRules("comprehensive")
           Pairs(r) == IF IsListConfig(r)
                       THEN {<<r.config[i].table, r.config[i].column>> : i \in DOMAIN r.config}
                       ELSE {<<r.config.table, r.config.column>>}
           referenced == UNION {Pairs(rules[j]) : j \in DOMAIN rules}
           Classes(pair) == {rules[j].rule_class : j \in {k \in DOMAIN rules : pair \in Pairs(rules[k])}}
           cov == validation_coverage
       IN  /\ {<<cov[k].table, cov[k].column>> : k \in DOMAIN cov} = referenced
           /\ Len(cov) = Cardinality(referenced)
           /\ \A k \in DOMAIN cov :
                 cov[k].validation_types = Classes(<<cov[k].table, cov[k].column>>)
           /\ ret.value.validation_details = cov
           /\ ret.value.covered_columns = Len(cov)
           /\ ret.value.total_columns = SumColumnCount(discovered_tables)
           /\ ret.value.total_columns > 0
                => /\ ret.value.coverage_percentage.num = ret.value.covered_columns * 100
                   /\ ret.value.coverage_percentage.den = ret.value.total_columns

\* C17: scoped connection.  In every call of a batch validate or of a
\* discovery, the calls made on the tunnel are paired: with a tunnel-mode
\* manager the tunnel is started once, first, and stopped once, last,
\* whether the loop finished and the call returned from inside the scope,
\* an exception left the loop partway, or the scope was never entered
\* because starting the tunnel or creating the engine failed; with a direct
\* manager no tunnel is started and none is stopped.
C17_ScopedConnection ==
    (ret.op \in {"validate", "discover_database_structure"})
    => LET ev == ret.trace.connection
           conn == ret.args.conn
           starts == {i \in DOMAIN ev : ev[i] = "tunnel.start"}
           stops == {i \in DOMAIN ev : ev[i] = "tunnel.stop"}
       IN  /\ Cardinality(starts) = Cardinality(stops)
           /\ conn.use_ssh_tunnel => /\ starts = {1}
                                      /\ stops = {Len(ev)}
           /\ ~conn.use_ssh_tunnel => starts = {}

\* A batch of two items entered the scope of a tunnel-mode manager, the
\* first item ran, an exception left the loop at the second, and the tunnel
\* was stopped.
C17_Witness ==
    /\ ret.op = "validate"
    /\ ret.args.conn.use_ssh_tunnel
    /\ ret.trace.acquired
    /\ ~ret.trace.loop_completed
    /\ Len(ret.args.configs) = 2
    /\ HasKeys(ret.args.configs[1])
    /\ ret.trace.connection = <<"tunnel.start", "_create_engine", "tunnel.stop">>

\* C18: message XOR error_details.  No ValidationResult produced by the
\* base-rule helpers, by a batch validate, by a sanity validate or stored by
\* a run has both message and error_details set; message is set only on a
\* SUCCESS result and error_details only on a WARNING or CRITICAL_FAILURE
\* result.
C18_MessageXorErrorDetails ==
    LET Xor(r) ==
          /\ ~(r.message # None /\ r.error_details # None)
          /\ r.message # None => r.status = "SUCCESS"
          /\ r.error_details # None => r.status \in {"WARNING", "CRITICAL_FAILURE"}
    IN  /\ ret.op \in {"_create_success_result", "_create_failure_result", "validate"}
             => Xor(ret.value)
        /\ (ret.op = "sanity_validate" /\ ~ret.raised) => Xor(ret.value)
        /\ ret.op = "manual_setup" =>
             \A i \in DOMAIN ret.trace.results :
               "status" \in DOMAIN ret.trace.results[i].result
                 => Xor(ret.trace.results[i].result)

\* C19: batch audit-trail accounting.  Every result of a batch validate that
\* carries detailed_context has the keys total_validations, passed, failed,
\* failed_tables, summary and detailed_results; total_validations is the
\* number of config items, passed + failed = total_validations, failed is
\* the length of failed_tables, and detailed_results holds the outcomes of
\* the items in config order: every item has its entries, the entries of an
\* earlier item come before those of a later one, and the entry of an item
\* whose check answered carries the status the check derived.
C19_BatchAuditTrail ==
    (ret.op = "validate" /\ ret.value.detailed_context.present)
    => LET ctx == ret.value.detailed_context
           configs == ret.args.configs
           envs == ret.args.envs
           N == Len(configs)
           dr == ctx.detailed_results
           M == Len(dr)
       IN  /\ {"total_validations", "passed", "failed", "failed_tables", "summary",
                "detailed_results"} \subseteq DOMAIN ctx
           /\ ctx.total_validations = N
           /\ ctx.passed >= 0 /\ ctx.failed >= 0
           /\ ctx.passed + ctx.failed = ctx.total_validations
           /\ ctx.failed = Len(ctx.failed_tables)
           /\ \E f \in [1..M -> 1..N] :
                 /\ \A k \in 1..M : \A l \in k..M : f[k] <= f[l]
                 /\ \A i \in 1..N : \E k \in 1..M : f[k] = i
                 /\ \A k \in 1..M :
                       /\ dr[k].table = configs[f[k]].table
                       /\ dr[k].column = configs[f[k]].column
                       /\ envs[f[k]].kind = "rows"
                            => /\ "status" \in DOMAIN dr[k]
                               /\ dr[k].status = IF envs[f[k]].null_count > 0
                                                 THEN "FAILED" ELSE "SUCCESS"
                       /\ envs[f[k]].kind \in {"sqlerror", "raise"}
                            => /\ "status" \in DOMAIN dr[k]
                               /\ dr[k].status = "FAILED"

\* Of two items the first passed and the check of the second raised: one
\* passed, one failed, two entries in config order.
C19_Witness ==
    /\ ret.op = "validate"
    /\ ret.value.detailed_context.present
    /\ Len(ret.args.configs) = 2
    /\ ret.args.envs[2].kind = "raise"
    /\ ret.value.detailed_context.passed = 1
    /\ ret.value.detailed_context.failed = 1
    /\ ret.value.detailed_context.failed_tables = <<"t2.c2">>
    /\ Len(ret.value.detailed_context.detailed_results) = 2

\* C20: rules never raise for expected failures.  When the connection or a
\* database query fails during validate, a batch rule and a sanity rule do
\* not raise but return a ValidationResult whose status is
\* CRITICAL_FAILURE.
C20_NeverRaiseOnDatabaseFailure ==
    /\ (/\ ret.op = "validate"
         /\ \/ ~ret.args.conn.ok
            \/ /\ ret.trace.loop_completed
               /\ \E i \in DOMAIN ret.args.envs : ret.args.envs[i].kind = "sqlerror")
        => (~ret.raised /\ ret.value.status = "CRITICAL_FAILURE")
    /\ (ret.op = "sanity_validate" /\ ret.args.env.kind = "queryfail")
        => (~ret.raised /\ ret.value.status = "CRITICAL_FAILURE")

\* C21: sanity-rule status priority.  When a sanity validate derives its
\* result from its sub-results, the status is CRITICAL_FAILURE if some
\* sub-result is CRITICAL_FAILURE, otherwise WARNING if some sub-result is
\* WARNING, otherwise SUCCESS; the summary counts each status and
\* passed + warnings + critical_failures is the number of sub-results.
C21_SanityStatusPriority ==
    (/\ ret.op = "sanity_validate"
     /\ ~ret.raised
     /\ ret.value.detailed_context.present)
    => LET subs == ret.args.env.subs
           Has(x) == \E i \in DOMAIN subs : subs[i].status = x
           Count(x) == Cardinality({i \in DOMAIN subs : subs[i].status = x})
           sum == ret.value.detailed_context.summary
       IN  /\ ret.value.status = IF Has("CRITICAL_FAILURE") THEN "CRITICAL_FAILURE"
                                  ELSE IF Has("WARNING") THEN "WARNING"
                                  ELSE "SUCCESS"
           /\ sum.total_validations = Len(subs)
           /\ sum.passed = Count("SUCCESS")
           /\ sum.warnings = Count("WARNING")
           /\ sum.critical_failures = Count("CRITICAL_FAILURE")
           /\ sum.passed + sum.warnings + sum.critical_failures = sum.total_validations

\* The heat sanity rule met a WARNING and then a CRITICAL_FAILURE
\* sub-result and reported CRITICAL_FAILURE.
C21_Witness ==
    /\ ret.op = "sanity_validate"
    /\ ~ret.raised
    /\ ret.args.cls = "EtragoHeatSanityRule"
    /\ ret.args.env.kind = "subs"
    /\ Len(ret.args.env.subs) = 2
    /\ ret.args.env.subs[1].status = "WARNING"
    /\ ret.args.env.subs[2].status = "CRITICAL_FAILURE"
    /\ ret.value.status = "CRITICAL_FAILURE"
    /\ ret.value.detailed_context.summary.passed = 0

\* C22: _calculate_deviation on non-negative values: both zero is SUCCESS with
\* deviation 0; an input with no output is CRITICAL_FAILURE with deviation
\* -100; an output with no input is CRITICAL_FAILURE; otherwise the deviation
\* is (output - input) / input * 100 and the status is SUCCESS exactly when
\* its absolute value is at most the tolerance, the boundary included, else
\* WARNING; and no division has a zero divisor.
C22_DeviationClassification ==
    (/\ ret.op = "_calculate_deviation"
     /\ ret.args.input_value >= 0 /\ ret.args.output_value >= 0)
    => LET i == ret.args.input_value
           o == ret.args.output_value
           t == ret.args.tolerance
           v == ret.value
           d == v.deviation_percent
           mag == IF o >= i THEN (o - i) * 100 ELSE (i - o) * 100
       IN  /\ ~ret.raised
           /\ (i = 0 /\ o = 0) => (v.status = "SUCCESS" /\ ~d.inf /\ d.num = 0)
           /\ (i > 0 /\ o = 0) => (v.status = "CRITICAL_FAILURE" /\ ~d.inf
                                   /\ d.num = -100 * d.den /\ d.ulp = 0)
           /\ (i = 0 /\ o > 0) => v.status = "CRITICAL_FAILURE"
           /\ (i > 0 /\ o > 0) =>
                /\ ~d.inf /\ d.num * i = (o - i) * 100 * d.den
                /\ v.status = IF mag <= t * i THEN "SUCCESS" ELSE "WARNING"

\* C23: NullCheckRule._validate_single_column returns FAILED exactly when the
\* observed null_count is above 0 and SUCCESS when it is 0, with invalid_count
\* equal to null_count; when the query fails it does not raise but returns
\* FAILED with total_rows 0 and null_count and invalid_count -1; so the status
\* is SUCCESS exactly when invalid_count is 0.
C23_NullCheckOutcome ==
    ret.op = "_validate_single_column"
    => LET e == ret.args.env
           v == ret.value
       IN  /\ ~ret.raised
           /\ v.table = ret.args.table /\ v.column = ret.args.column
           /\ e.kind = "rows" =>
                /\ v.status = IF e.null_count > 0 THEN "FAILED" ELSE "SUCCESS"
                /\ v.null_count = e.null_count /\ v.total_rows = e.total_rows
                /\ v.invalid_count = v.null_count
           /\ e.kind = "sqlerror" =>
                /\ v.status = "FAILED" /\ v.total_rows = 0
                /\ v.null_count = -1 /\ v.invalid_count = -1
           /\ (v.status = "SUCCESS") <=> (v.invalid_count = 0)

\* The query of a null check fails and the check returns its FAILED outcome.
C23_Witness ==
    /\ ret.op = "_validate_single_column" /\ ~ret.raised
    /\ ret.args.env.kind = "sqlerror"
    /\ ret.value.status = "FAILED" /\ ret.value.invalid_count = -1
    /\ ret.value.details = "SQL execution failed: connection lost"

\* C24: batch loop invariant.  Whatever the check of an item does (returns a
\* well-formed outcome, raises, returns a mapping without status, or returns
\* one whose logging fails), detailed_results has exactly one entry per config
\* item: its length equals total_validations in every result that carries
\* detailed_context.
C24_OneEntryPerItem ==
    (ret.op = "validate" /\ ret.value.detailed_context.present)
    => LET ctx == ret.value.detailed_context
           configs == ret.args.configs
           dr == ctx.detailed_results
       IN  /\ ctx.total_validations = Len(configs)
           /\ Len(dr) = ctx.total_validations
           /\ \A i \in 1..Len(configs) :
                 /\ i <= Len(dr)
                 /\ dr[i].table = configs[i].table
                 /\ dr[i].column = configs[i].column

\* C25: run loop invariant.  Whatever each registered rule does (constructor
\* raises, validate raises, validate returns a ValidationResult, validate
\* returns None), the report has exactly one detailed_results entry per
\* registered rule and every rule name is in exactly one of passed_rule_names
\* and failed_rule_names: len(detailed_results) = total_rules =
\* passed_rules + failed_rules.
C25_OneEntryPerRule ==
    (/\ ret.op = "run_all_validations"
     /\ \A i \in DOMAIN ret.args.outs :
          ret.args.outs[i].kind \in {"ctor_raise", "validate_raise", "result", "none"})
    => LET ran == ret.trace.ran
           M == Len(ran)
           report == ret.value
           In(name, names) == Cardinality({k \in DOMAIN names : names[k] = name})
       IN  /\ ~ret.raised
           /\ report.total_rules = M
           /\ Len(report.detailed_results) = report.total_rules
           /\ report.passed_rules + report.failed_rules = report.total_rules
           /\ \A i \in 1..M :
                 /\ Cardinality({k \in DOMAIN report.detailed_results :
                        report.detailed_results[k].rule_name = ran[i]}) = 1
                 /\ In(ran[i], report.passed_rule_names)
                      + In(ran[i], report.failed_rule_names) = 1

\* C26: batch-level and per-item failure are distinguishable.  validate
\* returns a result without detailed_context only when acquiring the
\* connection failed; whenever the connection was acquired, a failure that
\* concerns one item (a failing check, or an item mapping without table or
\* column) yields detailed_context with failed > 0 and leaves the remaining
\* items checked.
C26_BatchVersusItemFailure ==
    ret.op = "validate"
    => LET configs == ret.args.configs
           envs == ret.args.envs
           N == Len(configs)
           ctx == ret.value.detailed_context
           item_failure ==
             \E i \in 1..N :
                \/ ~HasKeys(configs[i])
                \/ ~(envs[i].kind = "rows" /\ envs[i].null_count = 0)
       IN  /\ ~ctx.present => ~ret.trace.acquired
           /\ (ret.trace.acquired /\ item_failure) =>
                /\ ctx.present
                /\ ctx.failed > 0
                /\ \A i \in 1..N :
                      HasKeys(configs[i]) => \E k \in DOMAIN ret.trace.invoked :
                                               ret.trace.invoked[k] = i

\* C27: summary and failed_tables agree.  In every batch result with
\* detailed_context a key "table.column" is in failed_tables exactly when
\* summary maps it to a status other than SUCCESS, and summary has one entry
\* per config item, also when the config lists a (table, column) pair more
\* than once with differing outcomes.
C27_SummaryMatchesFailedTables ==
    (ret.op = "validate" /\ ret.value.detailed_context.present)
    => LET ctx == ret.value.detailed_context
           failed == {ctx.failed_tables[k] : k \in DOMAIN ctx.failed_tables}
       IN  /\ \A key \in failed \cup DOMAIN ctx.summary :
                 (key \in failed)
                 <=> (key \in DOMAIN ctx.summary /\ ctx.summary[key] # "SUCCESS")
           /\ Cardinality(DOMAIN ctx.summary) = Len(ret.args.configs)

\* C28: coverage bounds.  In every report analyze_validation_coverage
\* returns, every table of covered_table_list is a discovered table,
\* covered_tables + uncovered_tables = total_discovered_tables,
\* covered_columns <= total_columns, and 0 <= coverage_percentage <= 100,
\* whatever schema was discovered.
C28_CoverageBounds ==
    (ret.op = "analyze_validation_coverage" /\ ~ret.raised)
    => LET report == ret.value
           discovered == {discovered_tables[k].table : k \in DOMAIN discovered_tables}
           pct == report.coverage_percentage
       IN  /\ report.covered_table_list \subseteq discovered
           /\ report.covered_tables + report.uncovered_tables
                = report.total_discovered_tables
           /\ report.covered_columns <= report.total_columns
           /\ pct.den > 0 /\ 0 <= pct.num /\ pct.num <= 100 * pct.den

\* C29: frame of a failed discovery.  When discover_database_structure
\* raises (the connection fails, or the table listing fails) the exception
\* reaches the caller and discovered_tables and validation_coverage are what
\* they were before the call; discovered_tables is replaced, as a whole, only
\* by a discovery that completes.
C29_FailedDiscoveryFrame ==
    [][ret'.op = "discover_database_structure"
       => /\ ret'.raised <=> (~ret'.args.conn.ok \/ ret'.args.listing.raised)
          /\ validation_coverage' = validation_coverage
          /\ ret'.raised =>
                /\ ret'.error = IF ~ret'.args.conn.ok THEN ret'.args.conn.msg
                                 ELSE ret'.args.listing.msg
                /\ ret'.value = PyNone
                /\ discovered_tables' = discovered_tables
          /\ ~ret'.raised => discovered_tables' = ret'.value.tables]_vars

\* A discovery failed on a monitor that held a discovered table and an
\* analysed coverage: both are still there.
C29_Witness ==
    /\ ret.op = "discover_database_structure"
    /\ ret.raised
    /\ discovered_tables # <<>>
    /\ validation_coverage # <<>>

\* C30: subset selection.  run_specific_validations(names) runs exactly the
\* registered rules whose names occur in names, each once however often it
\* is named, in registration order and not in the order of names; names that
\* are not registered are ignored without error; total_rules is the number of
\* distinct registered names in names, and when it is 0 the overall status is
\* SUCCESS.
C30_SubsetSelection ==
    [][ret'.op = "run_specific_validations"
       => LET names == ret'.args.rule_names
              reg == RuleNames(validation_rules)
              selected == {names[j] : j \in DOMAIN names} \cap {reg[i] : i \in DOMAIN reg}
              executed == ret'.trace.executed
              Pos(name) == CHOOSE i \in DOMAIN reg : reg[i] = name
          IN  /\ \A k \in DOMAIN executed : executed[k] \in selected
              /\ \A k, l \in DOMAIN executed :
                    k < l => Pos(executed[k]) < Pos(executed[l])
              /\ ~ret'.raised =>
                    /\ {executed[k] : k \in DOMAIN executed} = selected
                    /\ ret'.value.total_rules = Cardinality(selected)
                    /\ \A name \in selected :
                          \E k \in DOMAIN ret'.value.detailed_results :
                            ret'.value.detailed_results[k].rule_name = name
                    /\ \A k \in DOMAIN ret'.value.detailed_results :
                          ret'.value.detailed_results[k].rule_name \in selected
                    /\ selected = {} =>
                          /\ ret'.value.overall_status = "SUCCESS"
                          /\ ret'.value.detailed_results = <<>>]_vars

\* Two registered rules were selected by a list that names the second one
\* first and twice: each ran once, in registration order.
C30_Witness ==
    /\ ret.op = "run_specific_validations"
    /\ ~ret.raised
    /\ ret.args.rule_names = <<"test_time_series", "test_null_checks", "test_time_series">>
    /\ ret.trace.executed = <<"test_null_checks", "test_time_series">>
    /\ ret.value.total_rules = 2

====
